---- MODULE Spec2Model ----
(***************************************************************************)
(* Model of the OpenSAM opportunity search route                           *)
(* (src/src/app/api/sam-search/route.ts): rate limiter, query normalizer,  *)
(* response caches, embedding generator, relevance ranker and the GET      *)
(* handler that composes them.                                             *)
(*                                                                         *)
(* Conventions                                                             *)
(*  - a JavaScript string is a sequence of one-character strings;          *)
(*    Null (a missing header or query parameter) is a value no string      *)
(*    equals;                                                              *)
(*  - a JavaScript number is <<n>>, and NaN is << >>;                      *)
(*  - a Map is a function whose DOMAIN is the set of keys; a Map whose     *)
(*    insertion order the code reads (embeddingCache) is a sequence;       *)
(*  - time is in milliseconds since the epoch (Date.now()).                *)
(***************************************************************************)
EXTENDS Integers, Sequences, FiniteSets, TLC

\* ------------------------------------------------------------------ bounds

\* how many times the clock is advanced in one behaviour of the rate limiter
MaxRateTicks == 2

\* requests a sender other than the primary client sends within one rate window
MaxOtherBurst == 1

\* ------------------------------------------------------- program constants

SAM_RATE_LIMIT_WINDOW == 60000

SAM_RATE_LIMIT_MAX_REQUESTS == 100

\* ----------------------------------------------------------------- values

Null == <<"null">>

NaN == << >>

Num(n) == <<n>>

\* JavaScript truthiness of a string, null or undefined
Truthy(s) == s # Null /\ s # <<"undefined">> /\ s # << >>

\* JavaScript truthiness of a number
TruthyNum(x) == x # NaN /\ x # Num(0)

EmptyMap == << >>

Put(m, k, v) == [x \in (DOMAIN m) \cup {k} |-> IF x = k THEN v ELSE m[x]]

Remove(m, ks) == [x \in (DOMAIN m) \ ks |-> m[x]]

\* ---------------------------------------------------------- rate limiter

ipA == <<"1", "0", ".", "0", ".", "0", ".", "1">>

ipB == <<"1", "0", ".", "0", ".", "0", ".", "2">>

unknown == <<"u", "n", "k", "n", "o", "w", "n">>

clientIpShared(headers) == unknown

\* req.headers.get('x-forwarded-for') || req.headers.get('x-real-ip') || 'unknown'
clientIpOf(headers) ==
  IF Truthy(headers.xff) THEN headers.xff
  ELSE IF Truthy(headers.xreal) THEN headers.xreal
  ELSE unknown

WindowPassedInclusive(t, timestamp) == t - timestamp >= SAM_RATE_LIMIT_WINDOW

\* now - clientData.timestamp > SAM_RATE_LIMIT_WINDOW
WindowPassed(t, timestamp) == t - timestamp > SAM_RATE_LIMIT_WINDOW

LimitExceededOffByOne(count) == count > SAM_RATE_LIMIT_MAX_REQUESTS

\* clientData.count >= SAM_RATE_LIMIT_MAX_REQUESTS
LimitExceeded(count) == count >= SAM_RATE_LIMIT_MAX_REQUESTS

checkSAMRateLimitSliding(map, clientIp, t) ==
  IF clientIp \notin DOMAIN map
    THEN [allowed |-> TRUE, map |-> Put(map, clientIp, [count |-> 1, timestamp |-> t])]
  ELSE IF WindowPassed(t, map[clientIp].timestamp)
    THEN [allowed |-> TRUE, map |-> Put(map, clientIp, [count |-> 1, timestamp |-> t])]
  ELSE IF LimitExceeded(map[clientIp].count)
    THEN [allowed |-> FALSE, map |-> [map EXCEPT ![clientIp].timestamp = t]]
  ELSE [allowed |-> TRUE, map |-> [map EXCEPT ![clientIp].count = @ + 1]]

checkSAMRateLimitLosing(map, clientIp, t) ==
  IF clientIp \notin DOMAIN map
    THEN [allowed |-> TRUE, map |-> Put(map, clientIp, [count |-> 1, timestamp |-> t])]
  ELSE IF WindowPassed(t, map[clientIp].timestamp)
    THEN [allowed |-> TRUE, map |-> Put(map, clientIp, [count |-> 1, timestamp |-> t])]
  ELSE IF LimitExceeded(map[clientIp].count)
    THEN [allowed |-> FALSE, map |-> map]
  ELSE [allowed |-> TRUE,
        map |-> IF map[clientIp].count % 2 = 0 THEN map
                ELSE [map EXCEPT ![clientIp].count = @ + 1]]

\* the limiter on the map `map` for the client `clientIp` at time t:
\* whether the request is admitted, and the map afterwards
checkSAMRateLimit(map, clientIp, t) ==
  IF clientIp \notin DOMAIN map
    THEN [allowed |-> TRUE, map |-> Put(map, clientIp, [count |-> 1, timestamp |-> t])]
  ELSE IF WindowPassed(t, map[clientIp].timestamp)
    THEN [allowed |-> TRUE, map |-> Put(map, clientIp, [count |-> 1, timestamp |-> t])]
  ELSE IF LimitExceeded(map[clientIp].count)
    THEN [allowed |-> FALSE, map |-> map]
  ELSE [allowed |-> TRUE, map |-> [map EXCEPT ![clientIp].count = @ + 1]]

\* ------------------------------------------- the window, as requests see it
\* window[ip] = [start, admitted, rejected, afterRejection]: the time of the
\* request that started the client's current window, the number of requests
\* admitted in it, whether one was rejected in it (0 or 1), and whether one was
\* rejected in the window before it.  A request falls inside the window while
\* no more than SAM_RATE_LIMIT_WINDOW ms have passed since its start.

InsideWindow(w, ip, t) ==
  ip \in DOMAIN w /\ t - w[ip].start <= SAM_RATE_LIMIT_WINDOW

WindowAfter(w, ip, t, allowed) ==
  IF InsideWindow(w, ip, t)
    THEN [w EXCEPT ![ip].admitted = @ + (IF allowed THEN 1 ELSE 0),
                   ![ip].rejected = IF allowed THEN @ ELSE 1]
    ELSE Put(w, ip, [start |-> t,
                     admitted |-> IF allowed THEN 1 ELSE 0,
                     rejected |-> IF allowed THEN 0 ELSE 1,
                     afterRejection |-> ip \in DOMAIN w /\ w[ip].rejected = 1])

\* what a caller of the limiter observes
RateCall(w, headers, ip, t, allowed) ==
  [called |-> TRUE, ip |-> ip, allowed |-> allowed,
   xff |-> headers.xff, xreal |-> headers.xreal,
   inside |-> InsideWindow(w, ip, t),
   before |-> IF InsideWindow(w, ip, t) THEN w[ip].admitted ELSE 0]

NoRateCall ==
  [called |-> FALSE, ip |-> Null, allowed |-> FALSE, xff |-> Null, xreal |-> Null,
   inside |-> FALSE, before |-> 0]

\* ---------------------------------------------------------------- strings

Undefined == <<"undefined">>

\* s1 + s2 + ... for a sequence of strings
RECURSIVE Concat(_)
Concat(ss) == IF ss = << >> THEN << >> ELSE Head(ss) \o Concat(Tail(ss))

DigitChars == <<"0", "1", "2", "3", "4", "5", "6", "7", "8", "9">>

IsDigit(c) == \E i \in 1..10 : DigitChars[i] = c

DigitValue(c) == (CHOOSE i \in 1..10 : DigitChars[i] = c) - 1

AllDigits(s) == \A i \in 1..Len(s) : IsDigit(s[i])

IsSpace(c) == c \in {" ", "\t", "\n", "\r"}

RECURSIVE TrimStart(_)
TrimStart(s) ==
  IF s # << >> /\ IsSpace(Head(s)) THEN TrimStart(Tail(s)) ELSE s

RECURSIVE TrimEnd(_)
TrimEnd(s) ==
  IF s # << >> /\ IsSpace(s[Len(s)]) THEN TrimEnd(SubSeq(s, 1, Len(s) - 1)) ELSE s

\* String.prototype.trim
Trim(s) == TrimEnd(TrimStart(s))

\* the length of the longest prefix of s made of digits
RECURSIVE DigitPrefix(_)
DigitPrefix(s) ==
  IF s # << >> /\ IsDigit(Head(s)) THEN 1 + DigitPrefix(Tail(s)) ELSE 0

\* the value of a string of digits
RECURSIVE DigitsValue(_)
DigitsValue(s) ==
  IF s = << >> THEN 0
  ELSE 10 * DigitsValue(SubSeq(s, 1, Len(s) - 1)) + DigitValue(s[Len(s)])

\* parseInt(s), radix 10: leading white space, a sign, then the longest run of
\* digits; NaN when there is none
parseInt(s) ==
  LET t == TrimStart(s)
      signed == t # << >> /\ Head(t) \in {"-", "+"}
      body == IF signed THEN Tail(t) ELSE t
      n == DigitPrefix(body)
      v == DigitsValue(SubSeq(body, 1, n))
  IN IF n = 0 THEN NaN
     ELSE IF signed /\ Head(t) = "-" THEN Num(0 - v) ELSE Num(v)

\* the decimal digits of a natural number
RECURSIVE NatToString(_)
NatToString(n) ==
  IF n < 10 THEN <<DigitChars[n + 1]>>
  ELSE NatToString(n \div 10) \o <<DigitChars[(n % 10) + 1]>>

\* Number.prototype.toString of an integer, String(NaN) for NaN
NumToString(x) ==
  IF x = NaN THEN <<"N", "a", "N">>
  ELSE IF x[1] < 0 THEN <<"-">> \o NatToString(0 - x[1])
  ELSE NatToString(x[1])

\* String(n).padStart(2, '0')
PadStart2(s) == IF Len(s) < 2 THEN <<"0">> \o s ELSE s

\* x || d for numbers
OrNum(x, d) == IF TruthyNum(x) THEN x ELSE d

\* Math.min(x, y)
MathMin(x, y) ==
  IF x = NaN \/ y = NaN THEN NaN
  ELSE IF x[1] <= y[1] THEN x ELSE y

\* ------------------------------------------------------------------ dates

MS_PER_DAY == 86400000

\* the calendar date (UTC) of the day `days` days after 1970-01-01
CivilFromDays(days) ==
  LET z == days + 719468
      era == z \div 146097
      doe == z - era * 146097
      yoe == (doe - doe \div 1460 + doe \div 36524 - doe \div 146096) \div 365
      doy == doe - (365 * yoe + yoe \div 4 - yoe \div 100)
      mp == (5 * doy + 2) \div 153
      d == doy - (153 * mp + 2) \div 5 + 1
      m == IF mp < 10 THEN mp + 3 ELSE mp - 9
      y == yoe + era * 400 + (IF m <= 2 THEN 1 ELSE 0)
  IN [year |-> y, month |-> m, day |-> d]

\* the number of days from 1970-01-01 to a calendar date
DaysFromCivil(y0, m, d) ==
  LET y == IF m <= 2 THEN y0 - 1 ELSE y0
      era == y \div 400
      yoe == y - era * 400
      doy == (153 * (IF m > 2 THEN m - 3 ELSE m + 9) + 2) \div 5 + d - 1
      doe == yoe * 365 + yoe \div 4 - yoe \div 100 + doy
  IN era * 146097 + doe - 719468

\* new Date() at time t, to the day
Today(t) == t \div MS_PER_DAY

formatDateMonthIndex(days) ==
  LET c == CivilFromDays(days)
  IN PadStart2(NatToString(c.month - 1)) \o <<"/">> \o PadStart2(NatToString(c.day))
       \o <<"/">> \o NatToString(c.year)

\* formatDateForSAM: MM/DD/YYYY
formatDateForSAM(days) ==
  LET c == CivilFromDays(days)
  IN PadStart2(NatToString(c.month)) \o <<"/">> \o PadStart2(NatToString(c.day))
       \o <<"/">> \o NatToString(c.year)

\* the pieces of s between the separators sep
RECURSIVE Split(_, _)
Split(s, sep) ==
  IF \A i \in 1..Len(s) : s[i] # sep THEN <<s>>
  ELSE LET k == CHOOSE i \in 1..Len(s) : s[i] = sep /\ \A j \in 1..(i - 1) : s[j] # sep
       IN <<SubSeq(s, 1, k - 1)>> \o Split(SubSeq(s, k + 1, Len(s)), sep)

\* /^\d{1,2}\/\d{1,2}\/\d{4}$/
IsSAMDate(s) ==
  LET parts == Split(s, "/")
  IN /\ Len(parts) = 3
     /\ Len(parts[1]) \in {1, 2} /\ AllDigits(parts[1])
     /\ Len(parts[2]) \in {1, 2} /\ AllDigits(parts[2])
     /\ Len(parts[3]) = 4 /\ AllDigits(parts[3])

\* /^\d{4}-\d{2}-\d{2}$/
IsISODate(s) ==
  LET parts == Split(s, "-")
  IN /\ Len(parts) = 3
     /\ Len(parts[1]) = 4 /\ AllDigits(parts[1])
     /\ Len(parts[2]) = 2 /\ AllDigits(parts[2])
     /\ Len(parts[3]) = 2 /\ AllDigits(parts[3])

\* new Date(dateStr), to the day, for the strings no pattern of normalizeDate
\* matches: of the forms the engine's parser accepts the model knows
\* YYYY/MM/DD (a valid calendar date); every other string is an Invalid Date
InvalidDate == << >>

DateParse(s) ==
  LET parts == Split(s, "/")
  IN IF /\ Len(parts) = 3
        /\ Len(parts[1]) = 4 /\ AllDigits(parts[1])
        /\ Len(parts[2]) = 2 /\ AllDigits(parts[2])
        /\ Len(parts[3]) = 2 /\ AllDigits(parts[3])
        /\ DigitsValue(parts[2]) \in 1..12
        /\ DigitsValue(parts[3]) \in 1..28
       THEN <<DaysFromCivil(DigitsValue(parts[1]), DigitsValue(parts[2]),
                            DigitsValue(parts[3]))>>
       ELSE InvalidDate

normalizeDateUnchecked(dateStr) ==
  IF ~Truthy(dateStr) THEN Undefined
  ELSE IF IsSAMDate(dateStr) THEN dateStr
  ELSE IF IsISODate(dateStr)
    THEN LET parts == Split(dateStr, "-")
         IN parts[2] \o <<"/">> \o parts[3] \o <<"/">> \o parts[1]
  ELSE dateStr

\* normalizeDate: a date string in MM/DD/YYYY, or undefined
normalizeDate(dateStr) ==
  IF ~Truthy(dateStr) THEN Undefined
  ELSE IF IsSAMDate(dateStr) THEN dateStr
  ELSE IF IsISODate(dateStr)
    THEN LET parts == Split(dateStr, "-")
         IN parts[2] \o <<"/">> \o parts[3] \o <<"/">> \o parts[1]
  ELSE IF DateParse(dateStr) # InvalidDate THEN formatDateForSAM(DateParse(dateStr)[1])
  ELSE Undefined

\* --------------------------------------------------------- search filters

\* x || undefined, x || d for strings
OrStr(x, d) == IF Truthy(x) THEN x ELSE d

None == << >>

Some(x) == <<x>>

\* parseFloat of a string without a fraction or an exponent
parseFloat(s) == parseInt(s)

DEFAULT_LIMIT == 50

UPSTREAM_MAX_LIMIT == 100

\* limit ? parseInt(limit) : 50
LimitOf(limit) == IF Truthy(limit) THEN parseInt(limit) ELSE Num(DEFAULT_LIMIT)

\* offset ? parseInt(offset) : 0
OffsetOf(offset) == IF Truthy(offset) THEN parseInt(offset) ELSE Num(0)

TrueString == <<"t", "r", "u", "e">>

FalseString == <<"f", "a", "l", "s", "e">>

DEFAULT_WINDOW_DAYS == 30

\* thirtyDaysAgo: setDate(getDate() - 30) on a copy of today
ThirtyDaysAgo(today) == today - DEFAULT_WINDOW_DAYS

\* the SAMSearchFilters the handler builds from the query parameters on the
\* day `today`
FiltersOn(req, today) ==
  [ keyword |-> OrStr(req.q, Undefined),
    startDate |-> OrStr(normalizeDate(req.startDate), formatDateForSAM(ThirtyDaysAgo(today))),
    endDate |-> OrStr(normalizeDate(req.endDate), formatDateForSAM(today)),
    naicsCode |-> OrStr(req.naicsCode, Undefined),
    state |-> OrStr(req.state, Undefined),
    agency |-> OrStr(req.agency, Undefined),
    type |-> OrStr(req.type, Undefined),
    setAside |-> OrStr(req.setAside, Undefined),
    active |-> (req.active = TrueString),
    limit |-> LimitOf(req.limit),
    offset |-> OffsetOf(req.offset),
    entityName |-> OrStr(req.entityName, Undefined),
    contractVehicle |-> OrStr(req.contractVehicle, Undefined),
    classificationCode |-> OrStr(req.classificationCode, Undefined),
    fundingSource |-> OrStr(req.fundingSource, Undefined),
    responseDeadline |->
      [from |-> OrStr(normalizeDate(req.responseDeadlineFrom), Undefined),
       to |-> OrStr(normalizeDate(req.responseDeadlineTo), Undefined)],
    estimatedValue |->
      [min |-> IF Truthy(req.estimatedValueMin)
                 THEN Some(parseFloat(req.estimatedValueMin)) ELSE None,
       max |-> IF Truthy(req.estimatedValueMax)
                 THEN Some(parseFloat(req.estimatedValueMax)) ELSE None],
    hasAttachments |-> (req.hasAttachments = TrueString) ]

\* the SAMSearchFilters the handler builds from the query parameters at time t
BuildFilters(req, t) == FiltersOn(req, Today(t))

\* ---------------------------------------------------------- JSON.stringify
\* The text is a sequence of tokens: the characters of the data, and one token
\* for each piece of fixed syntax.

RECURSIVE Join(_, _)
Join(ss, sep) ==
  IF ss = << >> THEN << >>
  ELSE IF Len(ss) = 1 THEN Head(ss)
  ELSE Head(ss) \o sep \o Join(Tail(ss), sep)

RECURSIVE JSONEscape(_)
JSONEscape(s) ==
  IF s = << >> THEN << >>
  ELSE (IF Head(s) \in {"\"", "\\"} THEN <<"\\", Head(s)>> ELSE <<Head(s)>>)
         \o JSONEscape(Tail(s))

JSONString(s) == <<"\"">> \o JSONEscape(s) \o <<"\"">>

JSONNumberAsNull(x) == <<"null">>

JSONNumber(x) == IF x = NaN THEN <<"null">> ELSE NumToString(x)

JSONBool(b) == IF b THEN <<"true">> ELSE <<"false">>

\* "name":value, or nothing for an undefined value
StrMember(name, s) ==
  IF s = Undefined THEN << >> ELSE << <<"\"", name, "\"", ":">> \o JSONString(s) >>

NumMember(name, x) == << <<"\"", name, "\"", ":">> \o JSONNumber(x) >>

OptNumMember(name, o) ==
  IF o = None THEN << >> ELSE NumMember(name, o[1])

BoolMember(name, b) == << <<"\"", name, "\"", ":">> \o JSONBool(b) >>

ObjMember(name, members) ==
  << <<"\"", name, "\"", ":", "{">> \o Join(members, <<",">>) \o <<"}">> >>

\* JSON.stringify(filters): the members in the order of the object literal,
\* undefined members left out, NaN written as null
JSONStringifyFilters(f) ==
  <<"{">> \o
  Join(StrMember("keyword", f.keyword) \o StrMember("startDate", f.startDate)
       \o StrMember("endDate", f.endDate) \o StrMember("naicsCode", f.naicsCode)
       \o StrMember("state", f.state) \o StrMember("agency", f.agency)
       \o StrMember("type", f.type) \o StrMember("setAside", f.setAside)
       \o BoolMember("active", f.active) \o NumMember("limit", f.limit)
       \o NumMember("offset", f.offset) \o StrMember("entityName", f.entityName)
       \o StrMember("contractVehicle", f.contractVehicle)
       \o StrMember("classificationCode", f.classificationCode)
       \o StrMember("fundingSource", f.fundingSource)
       \o ObjMember("responseDeadline",
                    StrMember("from", f.responseDeadline.from)
                    \o StrMember("to", f.responseDeadline.to))
       \o ObjMember("estimatedValue",
                    OptNumMember("min", f.estimatedValue.min)
                    \o OptNumMember("max", f.estimatedValue.max))
       \o BoolMember("hasAttachments", f.hasAttachments),
       <<",">>)
  \o <<"}">>

\* ------------------------------------------------- upstream query parameters

StrParam(name, s) == IF Truthy(s) THEN << <<name, s>> >> ELSE << >>

OptNumParam(name, o) ==
  IF o # None /\ TruthyNum(o[1]) THEN << <<name, NumToString(o[1])>> >> ELSE << >>

UpstreamLimitUnclamped(f) == OrNum(f.limit, Num(DEFAULT_LIMIT))

\* Math.min(filters.limit || 50, 100)
UpstreamLimit(f) == MathMin(OrNum(f.limit, Num(DEFAULT_LIMIT)), Num(UPSTREAM_MAX_LIMIT))

\* filters.offset || 0
UpstreamOffset(f) == OrNum(f.offset, Num(0))

\* the URLSearchParams searchSAMOpportunities sends, in the order appended
UpstreamParams(f) ==
  StrParam("q", f.keyword) \o StrParam("postedFrom", f.startDate)
  \o StrParam("postedTo", f.endDate) \o StrParam("naicsCode", f.naicsCode)
  \o StrParam("state", f.state) \o StrParam("agency", f.agency)
  \o StrParam("noticeType", f.type) \o StrParam("setAside", f.setAside)
  \o << <<"active", IF f.active THEN TrueString ELSE FalseString>> >>
  \o StrParam("entityName", f.entityName)
  \o StrParam("contractVehicle", f.contractVehicle)
  \o StrParam("classificationCode", f.classificationCode)
  \o StrParam("fundingSource", f.fundingSource)
  \o StrParam("responseDeadlineFrom", f.responseDeadline.from)
  \o StrParam("responseDeadlineTo", f.responseDeadline.to)
  \o OptNumParam("estimatedValueMin", f.estimatedValue.min)
  \o OptNumParam("estimatedValueMax", f.estimatedValue.max)
  \o (IF f.hasAttachments THEN << <<"hasAttachments", TrueString>> >> ELSE << >>)
  \o << <<"limit", NumToString(UpstreamLimit(f))>>,
        <<"offset", NumToString(UpstreamOffset(f))>>,
        <<"includeCount", TrueString>>,
        <<"format", <<"j", "s", "o", "n">> >> >>

\* the value of the parameter `name` in a parameter list, Null when absent
ParamValue(params, name) ==
  IF \E i \in 1..Len(params) : params[i][1] = name
    THEN params[CHOOSE i \in 1..Len(params) : params[i][1] = name][2]
    ELSE Null

\* ----------------------------------------------------- embedding generator
\* embeddingCache is a Map read in insertion order by the cleanup: a sequence
\* of [key, value], each key once.

openai == <<"o", "p", "e", "n", "a", "i">>

huggingface == <<"h", "u", "g", "g", "i", "n", "g", "f", "a", "c", "e">>

\* `${provider}:${text}`
EmbeddingKey(provider, text) == provider \o <<":">> \o text

CacheHas(cache, key) == \E i \in 1..Len(cache) : cache[i].key = key

CacheGet(cache, key) == cache[CHOOSE i \in 1..Len(cache) : cache[i].key = key].value

\* Map.prototype.set: a new key is appended, a known key keeps its place
CacheSet(cache, key, value) ==
  IF CacheHas(cache, key)
    THEN [i \in 1..Len(cache) |->
            IF cache[i].key = key THEN [key |-> key, value |-> value] ELSE cache[i]]
    ELSE Append(cache, [key |-> key, value |-> value])

DefaultVector == <<1, 0>>

\* the vector the provider's model computes for a text
ModelVector(model, text) ==
  IF text \in DOMAIN model THEN model[text] ELSE DefaultVector

SupportedProviderAny(provider) == TRUE

\* the cases of the switch that call a provider
SupportedProvider(provider) == provider \in {openai, huggingface}

CacheHasNever(cache, key) == FALSE

\* embeddingCache.has(cacheKey)
EmbeddingCached(cache, key) == CacheHas(cache, key)

\* One call of generateEmbeddings(text, provider, apiKey) on the cache `cache`;
\* `model` is the provider's model and `failing` the texts for which the
\* provider answers with a non-success response or a malformed body.
\* ok: the call returned `value`; net: the provider calls made (0 or 1);
\* unsupported: it threw "Embedding provider ... not supported".
generateEmbeddings(cache, text, provider, model, failing) ==
  LET key == EmbeddingKey(provider, text)
  IN IF EmbeddingCached(cache, key)
       THEN [ok |-> TRUE, value |-> CacheGet(cache, key), cache |-> cache,
             net |-> 0, unsupported |-> FALSE]
     ELSE IF ~SupportedProvider(provider)
       THEN [ok |-> FALSE, value |-> << >>, cache |-> cache,
             net |-> 0, unsupported |-> TRUE]
     ELSE IF text \in failing
       THEN [ok |-> FALSE, value |-> << >>, cache |-> cache,
             net |-> 1, unsupported |-> FALSE]
     ELSE [ok |-> TRUE, value |-> ModelVector(model, text),
           cache |-> CacheSet(cache, key, ModelVector(model, text)),
           net |-> 1, unsupported |-> FALSE]

\* ------------------------------------------------------- cosine similarity
\* Scores are fixed-point numbers in units of 1/25; the vectors of the model
\* have whole-number lengths (0, 1 or 5), so every score is exact.

Dot(a, b) == a[1] * b[1] + a[2] * b[2]

Norm(a) == CHOOSE n \in 0..(Dot(a, a)) : n * n = Dot(a, a)

\* dot(a, b) / (|a| |b|), and 0 when either vector has zero magnitude
cosineSimilarity(a, b) ==
  IF Norm(a) = 0 \/ Norm(b) = 0 THEN 0
  ELSE (25 * Dot(a, b)) \div (Norm(a) * Norm(b))

Vectors == {<<0, 0>>, <<1, 0>>, <<0, 1>>, <<3, 4>>, <<4, 3>>, <<-1, 0>>}

\* -------------------------------------------------------- relevance ranker

TOP_N == 25

\* `${opportunity.title} ${opportunity.description} ${opportunity.synopsis}`
OpportunityText(o) == o.title \o <<" ">> \o o.description \o <<" ">> \o o.synopsis

\* the comparator of the sort: (b.relevanceScore || 0) - (a.relevanceScore || 0)
CompareByScore(a, b) == b.relevanceScore - a.relevanceScore

GoesBeforeUnstable(list, i, j) ==
  \/ CompareByScore(list[i], list[j]) < 0
  \/ CompareByScore(list[i], list[j]) = 0 /\ i > j

\* Array.prototype.sort with a comparator is stable: list[i] goes before
\* list[j] when the comparator orders it first, or orders neither and i < j
GoesBefore(list, i, j) ==
  \/ CompareByScore(list[i], list[j]) < 0
  \/ CompareByScore(list[i], list[j]) = 0 /\ i < j

\* [...list].sort(comparator): place[i] is where list[i] comes to stand
SortByScore(list) ==
  LET n == Len(list)
      place == SubSeq([i \in 1..n |->
                         1 + Cardinality({j \in 1..n : GoesBefore(list, j, i)})], 1, n)
  IN [r \in 1..n |-> list[CHOOSE i \in 1..n : place[i] = r]]

SliceAll(list, n) == list

\* Array.prototype.slice(0, n)
Slice(list, n) == SubSeq(list, 1, IF Len(list) < n THEN Len(list) ELSE n)

\* the order in which the fan-out's provider calls complete: the order of the
\* candidates, or the reverse
CompletionOrder(n, order) ==
  [i \in 1..n |-> IF order = "forward" THEN i ELSE n + 1 - i]

\* the cache after the calls idx (candidate indices, in completion order) have
\* stored their vectors: Map.prototype.set appends a key when it is first set
StoreAll(cache, idx, opportunities, provider, model) ==
  LET keyOf(k) == EmbeddingKey(provider, OpportunityText(opportunities[idx[k]]))
      first == SelectSeq([k \in 1..Len(idx) |-> k],
                         LAMBDA k : /\ ~CacheHas(cache, keyOf(k))
                                    /\ \A j \in 1..(k - 1) : keyOf(j) # keyOf(k))
  IN cache \o [n \in 1..Len(first) |->
                [key |-> keyOf(first[n]),
                 value |-> ModelVector(model, OpportunityText(opportunities[idx[first[n]]]))]]

SelectIdx(idx, keep) == SelectSeq(idx, LAMBDA i : i \in keep)

BlankQueryUntrimmed(query) == query = << >>

\* !query.trim()
BlankQuery(query) == Trim(query) = << >>

FallbackEmpty(opportunities) == << >>

\* the catch: return opportunities
Fallback(opportunities) == opportunities

performSemanticSearchSettled(opportunities, query, provider, cache, model, failing, order) ==
  IF BlankQuery(query)
    THEN [result |-> opportunities, cache |-> cache, net |-> 0, ranked |-> FALSE,
          called |-> FALSE]
  ELSE
    LET q == generateEmbeddings(cache, query, provider, model, failing)
        n == Len(opportunities)
        call == SubSeq([i \in 1..n |->
                          generateEmbeddings(q.cache, OpportunityText(opportunities[i]),
                                             provider, model, failing)], 1, n)
        stored == {i \in 1..n : call[i].ok /\ call[i].net = 1}
        cacheAfter == StoreAll(q.cache, SelectIdx(CompletionOrder(n, order), stored),
                               opportunities, provider, model)
        netCalls == q.net + Cardinality({i \in 1..n : call[i].net = 1})
        scored == [i \in 1..n |->
                     IF call[i].ok
                       THEN [opportunities[i] EXCEPT
                               !.relevanceScore = cosineSimilarity(q.value, call[i].value)]
                       ELSE opportunities[i]]
    IN IF ~q.ok
         THEN [result |-> Fallback(opportunities), cache |-> q.cache, net |-> q.net,
               ranked |-> FALSE, called |-> TRUE]
       ELSE [result |-> Slice(SortByScore(scored), TOP_N), cache |-> cacheAfter,
             net |-> netCalls, ranked |-> \A i \in 1..n : call[i].ok, called |-> TRUE]

\* performSemanticSearch(opportunities, query, provider, apiKey).
\* The query's vector is awaited first.  Promise.all then starts one call of
\* generateEmbeddings per candidate: each looks its key up in the cache before
\* any of them has stored a vector, the misses call the provider, and every
\* call that succeeds stores its vector when it completes.
\* ranked: the sorted, truncated list was returned; net: provider calls made.
performSemanticSearch(opportunities, query, provider, cache, model, failing, order) ==
  IF BlankQuery(query)
    THEN [result |-> opportunities, cache |-> cache, net |-> 0, ranked |-> FALSE,
          called |-> FALSE]
  ELSE
    LET q == generateEmbeddings(cache, query, provider, model, failing)
        n == Len(opportunities)
        call == SubSeq([i \in 1..n |->
                          generateEmbeddings(q.cache, OpportunityText(opportunities[i]),
                                             provider, model, failing)], 1, n)
        stored == {i \in 1..n : call[i].ok /\ call[i].net = 1}
        cacheAfter == StoreAll(q.cache, SelectIdx(CompletionOrder(n, order), stored),
                               opportunities, provider, model)
        netCalls == q.net + Cardinality({i \in 1..n : call[i].net = 1})
        scored == [i \in 1..n |->
                     [opportunities[i] EXCEPT
                        !.relevanceScore = cosineSimilarity(q.value, call[i].value)]]
    IN IF ~q.ok
         THEN [result |-> Fallback(opportunities), cache |-> q.cache, net |-> q.net,
               ranked |-> FALSE, called |-> TRUE]
       ELSE IF \E i \in 1..n : ~call[i].ok
         THEN [result |-> Fallback(opportunities), cache |-> cacheAfter, net |-> netCalls,
               ranked |-> FALSE, called |-> TRUE]
       ELSE [result |-> Slice(SortByScore(scored), TOP_N), cache |-> cacheAfter,
             net |-> netCalls, ranked |-> TRUE, called |-> TRUE]

\* whether a generateEmbeddings call of the ranking, for the query or for a
\* candidate, throws
EmbeddingFailure(candidates, query, provider, cache, model, failing) ==
  \E q \in {generateEmbeddings(cache, query, provider, model, failing)} :
    \/ ~q.ok
    \/ \E i \in 1..Len(candidates) :
         ~generateEmbeddings(q.cache, OpportunityText(candidates[i]), provider, model,
                             failing).ok

\* -------------------------------------------------------------- withCache
\* redisCache: key -> [payload, storedAt].  withCache(key, compute, {ttl})
\* returns a stored payload younger than the ttl; otherwise it runs compute,
\* stores what compute returns and lets what compute throws pass uncached.

SAM_SEARCH_TTL_S == 1800

SamSearchTTL == SAM_SEARCH_TTL_S * 1000

\* generateCacheKey(JSON.stringify(filters), 'sam-search')
generateCacheKey(text, prefix) == <<prefix, ":">> \o text

RedisLive(cache, key, ttl, t) ==
  key \in DOMAIN cache /\ t - cache[key].storedAt < ttl

\* computed: what compute would return or throw, [ok, payload, error]
withCache(cache, key, ttl, t, computed) ==
  IF RedisLive(cache, key, ttl, t)
    THEN [ok |-> TRUE, payload |-> cache[key].payload, cache |-> cache,
          computes |-> 0, error |-> << >>]
  ELSE IF computed.ok
    THEN [ok |-> TRUE, payload |-> computed.payload,
          cache |-> Put(cache, key, [payload |-> computed.payload, storedAt |-> t]),
          computes |-> 1, error |-> << >>]
  ELSE [ok |-> FALSE, payload |-> << >>, cache |-> cache,
        computes |-> 1, error |-> computed.error]

\* ---------------------------------------------------------- upstream fetch
\* An upstream answer is [ok, status, statusText, body, errorMessage, listings]:
\* for a non-success status, body is the response text and errorMessage the
\* errorMessage member of its JSON (Null when the text is no JSON or has none);
\* for a success, listings is data.opportunitiesData, << >> when it is missing
\* (the code reads both as []).

\* data.opportunitiesData?.map(...) || []
TransformListing(raw) ==
  [ id |-> OrStr(raw.noticeId, raw.solicitationNumber),
    noticeId |-> raw.noticeId,
    title |-> raw.title,
    description |-> OrStr(raw.description, << >>),
    synopsis |-> OrStr(raw.synopsis, << >>),
    relevanceScore |-> 0,
    isFavorite |-> FALSE ]

Transform(listings) ==
  [i \in 1..Len(listings) |-> TransformListing(listings[i])]

\* `SAM.gov API error: ${status} ${statusText}` + ` - ${errorMessage or body}`
UpstreamErrorMessage(answer) ==
  <<"SAM.gov API error: ">> \o NatToString(answer.status) \o <<" ">> \o answer.statusText
    \o <<" - ">> \o (IF Truthy(answer.errorMessage) THEN answer.errorMessage ELSE answer.body)

\* the compute of searchSAMOpportunities: the fetch and the translation
FetchOpportunities(answer) ==
  IF answer.ok
    THEN [ok |-> TRUE, payload |-> Transform(answer.listings), error |-> << >>]
    ELSE [ok |-> FALSE, payload |-> << >>, error |-> UpstreamErrorMessage(answer)]

\* searchSAMOpportunities(filters, samApiKey) on the store `cache` at time t;
\* `answer` is what the upstream registry answers if it is called
searchSAMOpportunities(cache, filters, t, answer) ==
  withCache(cache, generateCacheKey(JSONStringifyFilters(filters), "sam-search"),
            SamSearchTTL, t, FetchOpportunities(answer))

\* ------------------------------------------------------------ vector store

VECTOR_PUSH_MAX == 10

\* the opportunities pushed: opportunities.slice(0, 10)
Pushed(opportunities) == Slice(opportunities, VECTOR_PUSH_MAX)

Ids(opportunities) == {opportunities[i].id : i \in 1..Len(opportunities)}

\* ----------------------------------------------------------- GET handler

CACHE_DURATION == 300000

RateLimitMessage == <<"Rate limit exceeded. Please try again later.">>

KeyRequiredMessage == <<"SAM API key is required">>

Bearer == <<"B", "e", "a", "r", "e", "r", " ">>

\* String.prototype.replace(pattern, ''): the first occurrence removed
RemoveFirst(s, pattern) ==
  LET n == Len(pattern)
      at == {i \in 1..(Len(s) - n + 1) : SubSeq(s, i, i + n - 1) = pattern}
  IN IF at = {} THEN s
     ELSE LET k == CHOOSE i \in at : \A j \in at : i <= j
          IN SubSeq(s, 1, k - 1) \o SubSeq(s, k + n, Len(s))

\* req.headers.get('authorization')?.replace('Bearer ', '')
LlmApiKey(authorization) ==
  IF authorization = Null THEN Undefined ELSE RemoveFirst(authorization, Bearer)

NoTrace ==
  [rateChecked |-> FALSE, upstream |-> 0, embedNet |-> 0, ranker |-> FALSE,
   ranked |-> FALSE, vectorPush |-> 0, srcRead |-> FALSE, redisRead |-> FALSE]

SrcLiveInclusive(cache, key, t) ==
  key \in DOMAIN cache /\ t - cache[key].timestamp <= CACHE_DURATION

\* cachedResult && Date.now() - cachedResult.timestamp < CACHE_DURATION
SrcLive(cache, key, t) ==
  key \in DOMAIN cache /\ t - cache[key].timestamp < CACHE_DURATION

\* filters.limit || 50
EchoLimit(f) == OrNum(f.limit, Num(DEFAULT_LIMIT))

\* filters.offset || 0
EchoOffset(f) == OrNum(f.offset, Num(0))

\* The handler's outcome for the request req at time t in the state st
\* = [rate, src, redis, emb, vs, model]; env = [answer, failing, order, vsFailing]
\* is what the collaborators do if they are called.  The outcome is the
\* response (status, body), the state afterwards and what was done on the way.
Rejected(st, rate) ==
  [status |-> 429, body |-> [error |-> RateLimitMessage],
   rate |-> rate.map, src |-> st.src, redis |-> st.redis, emb |-> st.emb, vs |-> st.vs,
   key |-> Null, filters |-> Null,
   trace |-> [NoTrace EXCEPT !.rateChecked = TRUE]]

KeyRequired(st, rate) ==
  [status |-> 400, body |-> [error |-> KeyRequiredMessage],
   rate |-> rate.map, src |-> st.src, redis |-> st.redis, emb |-> st.emb, vs |-> st.vs,
   key |-> Null, filters |-> Null,
   trace |-> [NoTrace EXCEPT !.rateChecked = TRUE]]

CacheHit(st, rate, filters, key, t) ==
  [status |-> 200,
   body |-> [success |-> TRUE, data |-> st.src[key].data, cached |-> TRUE, timestamp |-> t],
   rate |-> rate.map, src |-> st.src, redis |-> st.redis, emb |-> st.emb, vs |-> st.vs,
   key |-> key, filters |-> filters,
   trace |-> [NoTrace EXCEPT !.rateChecked = TRUE, !.srcRead = TRUE]]

FailedPoisoning(st, rate, filters, key, t, found) ==
  [status |-> 500, body |-> [error |-> found.error, timestamp |-> t],
   rate |-> rate.map,
   src |-> Put(st.src, key, [data |-> [opportunities |-> << >>, totalRecords |-> 0,
                                       limit |-> EchoLimit(filters),
                                       offset |-> EchoOffset(filters)],
                             timestamp |-> t]),
   redis |-> found.cache, emb |-> st.emb, vs |-> st.vs,
   key |-> key, filters |-> filters,
   trace |-> [NoTrace EXCEPT !.rateChecked = TRUE, !.srcRead = TRUE,
                             !.redisRead = TRUE, !.upstream = found.computes]]

\* the catch of the handler: error.message and a timestamp, status 500
Failed(st, rate, filters, key, t, found) ==
  [status |-> 500, body |-> [error |-> found.error, timestamp |-> t],
   rate |-> rate.map, src |-> st.src, redis |-> found.cache, emb |-> st.emb, vs |-> st.vs,
   key |-> key, filters |-> filters,
   trace |-> [NoTrace EXCEPT !.rateChecked = TRUE, !.srcRead = TRUE,
                             !.redisRead = TRUE, !.upstream = found.computes]]

\* semantic === 'true' && keyword, and an llmApiKey
WantsRanking(req) ==
  /\ req.semantic = TrueString
  /\ Truthy(req.q)
  /\ Truthy(LlmApiKey(req.authorization))

\* the response data and the state after a fetch that succeeded and the
\* ranking `search` that followed it
Respond(st, rate, filters, key, t, found, env, pushed, search, response) ==
  [status |-> 200,
   body |-> [success |-> TRUE, data |-> response, timestamp |-> t],
   rate |-> rate.map,
   src |-> Put(st.src, key, [data |-> response, timestamp |-> t]),
   redis |-> found.cache,
   emb |-> search.cache,
   vs |-> st.vs \cup (Ids(pushed) \ env.vsFailing),
   key |-> key, filters |-> filters,
   trace |-> [NoTrace EXCEPT !.rateChecked = TRUE, !.srcRead = TRUE,
                             !.redisRead = TRUE, !.upstream = found.computes,
                             !.vectorPush = Len(pushed),
                             !.ranker = search.called, !.ranked = search.ranked,
                             !.embedNet = search.net]]

NoRanking(opportunities, cache) ==
  [result |-> opportunities, cache |-> cache, net |-> 0, ranked |-> FALSE,
   called |-> FALSE]

RankUnlessPushFails(st, rate, req, filters, key, t, found, env, search) ==
  IF Len(found.payload) > 0 /\ Ids(Pushed(found.payload)) \cap env.vsFailing # {}
    THEN Failed(st, rate, filters, key, t,
                [found EXCEPT !.error = <<"Failed to add opportunity">>])
    ELSE Respond(st, rate, filters, key, t, found, env,
                 IF Len(found.payload) > 0 THEN Pushed(found.payload) ELSE << >>,
                 search,
                 [opportunities |-> search.result,
                  totalRecords |-> Len(found.payload),
                  limit |-> EchoLimit(filters),
                  offset |-> EchoOffset(filters)])

RankInPlace(st, rate, req, filters, key, t, found, env, search) ==
  Respond(st, rate, filters, key, t,
          [found EXCEPT
             !.cache[generateCacheKey(JSONStringifyFilters(filters), "sam-search")].payload =
               search.result],
          env,
          IF Len(found.payload) > 0 THEN Pushed(found.payload) ELSE << >>,
          search,
          [opportunities |-> search.result,
           totalRecords |-> Len(found.payload),
           limit |-> EchoLimit(filters),
           offset |-> EchoOffset(filters)])

RankCountingReturned(st, rate, req, filters, key, t, found, env, search) ==
  Respond(st, rate, filters, key, t, found, env,
          IF Len(found.payload) > 0 THEN Pushed(found.payload) ELSE << >>,
          search,
          [opportunities |-> search.result,
           totalRecords |-> Len(search.result),
           limit |-> EchoLimit(filters),
           offset |-> EchoOffset(filters)])

\* the handler after the fetch: the vector push, whose failure is only logged,
\* and the response built from the ranking's result
Rank(st, rate, req, filters, key, t, found, env, search) ==
  Respond(st, rate, filters, key, t, found, env,
          IF Len(found.payload) > 0 THEN Pushed(found.payload) ELSE << >>,
          search,
          [opportunities |-> search.result,
           totalRecords |-> Len(found.payload),
           limit |-> EchoLimit(filters),
           offset |-> EchoOffset(filters)])

SucceededUnlessEmbeddingFails(st, rate, req, filters, key, t, found, env) ==
  IF /\ WantsRanking(req)
     /\ ~BlankQuery(req.q)
     /\ EmbeddingFailure(found.payload, req.q, OrStr(req.provider, openai), st.emb,
                         st.model, env.failing)
    THEN Failed(st, rate, filters, key, t,
                [found EXCEPT !.error = <<"Embedding provider error">>])
    ELSE Rank(st, rate, req, filters, key, t, found, env,
              IF WantsRanking(req)
                THEN performSemanticSearch(found.payload, req.q,
                                           OrStr(req.provider, openai),
                                           st.emb, st.model, env.failing, env.order)
                ELSE NoRanking(found.payload, st.emb))

\* the handler after the fetch: the ranking, if it is wanted, and the response
Succeeded(st, rate, req, filters, key, t, found, env) ==
  Rank(st, rate, req, filters, key, t, found, env,
       IF WantsRanking(req)
         THEN performSemanticSearch(found.payload, req.q, OrStr(req.provider, openai),
                                    st.emb, st.model, env.failing, env.order)
         ELSE NoRanking(found.payload, st.emb))

DispatchRejectLate(st, req, t, env, rate, filters, key, found) ==
  IF ~Truthy(req.samApiKey) THEN KeyRequired(st, rate)
  ELSE IF SrcLive(st.src, key, t) THEN CacheHit(st, rate, filters, key, t)
  ELSE IF ~rate.allowed
    THEN [Rejected(st, rate) EXCEPT !.redis = found.cache,
                                    !.trace.redisRead = TRUE,
                                    !.trace.upstream = found.computes]
  ELSE IF ~found.ok THEN Failed(st, rate, filters, key, t, found)
  ELSE Succeeded(st, rate, req, filters, key, t, found, env)

DispatchSwallowFailure(st, req, t, env, rate, filters, key, found) ==
  IF ~rate.allowed THEN Rejected(st, rate)
  ELSE IF ~Truthy(req.samApiKey) THEN KeyRequired(st, rate)
  ELSE IF SrcLive(st.src, key, t) THEN CacheHit(st, rate, filters, key, t)
  ELSE Succeeded(st, rate, req, filters, key, t, found, env)

DispatchKeyLate(st, req, t, env, rate, filters, key, found) ==
  IF ~rate.allowed THEN Rejected(st, rate)
  ELSE IF SrcLive(st.src, key, t) THEN CacheHit(st, rate, filters, key, t)
  ELSE IF ~Truthy(req.samApiKey) THEN KeyRequired(st, rate)
  ELSE IF ~found.ok THEN Failed(st, rate, filters, key, t, found)
  ELSE Succeeded(st, rate, req, filters, key, t, found, env)

DispatchFreeHits(st, req, t, env, rate, filters, key, found) ==
  IF Truthy(req.samApiKey) /\ SrcLive(st.src, key, t)
    THEN CacheHit(st, [rate EXCEPT !.map = st.rate], filters, key, t)
  ELSE IF ~rate.allowed THEN Rejected(st, rate)
  ELSE IF ~Truthy(req.samApiKey) THEN KeyRequired(st, rate)
  ELSE IF ~found.ok THEN Failed(st, rate, filters, key, t, found)
  ELSE Succeeded(st, rate, req, filters, key, t, found, env)

\* the handler's branches, in the order of the code
Dispatch(st, req, t, env, rate, filters, key, found) ==
  IF ~rate.allowed THEN Rejected(st, rate)
  ELSE IF ~Truthy(req.samApiKey) THEN KeyRequired(st, rate)
  ELSE IF SrcLive(st.src, key, t) THEN CacheHit(st, rate, filters, key, t)
  ELSE IF ~found.ok THEN Failed(st, rate, filters, key, t, found)
  ELSE Succeeded(st, rate, req, filters, key, t, found, env)

Fetch(st, req, t, env, rate, filters, key) ==
  Dispatch(st, req, t, env, rate, filters, key,
           searchSAMOpportunities(st.redis, filters, t, env.answer))

Keyed(st, req, t, env, rate, filters) ==
  Fetch(st, req, t, env, rate, filters, JSONStringifyFilters(filters))

Handle(st, req, t, env) ==
  Keyed(st, req, t, env, checkSAMRateLimit(st.rate, clientIpOf(req), t),
        BuildFilters(req, t))

\* ------------------------------------------------------ client store
\* The zustand store of the client: a state is a record of the fields of
\* AppState that the actions below read or write; an optional object (a
\* session or a list, or null) is None or Some(object).

EmptyString == << >>

\* { ...a, ...b }
Spread(a, b) ==
  [k \in DOMAIN a \cup DOMAIN b |-> IF k \in DOMAIN b THEN b[k] ELSE a[k]]

\* array.map(x => x.id === id ? f(x) : x)
MapWhereId(list, id, f(_)) ==
  [i \in 1..Len(list) |-> IF list[i].id = id THEN f(list[i]) ELSE list[i]]

\* array.filter(x => x.id !== id)
FilterOutId(list, id) == SelectSeq(list, LAMBDA x : x.id # id)

DEFAULT_LLM_CONFIG ==
  [provider |-> openai, model |-> <<"gpt-4o-mini">>, apiKey |-> EmptyString]

\* env: the NEXT_PUBLIC_ variables of the build, '' when unset
initialState(env) ==
  [ llmConfig |-> [DEFAULT_LLM_CONFIG EXCEPT !.apiKey = env.openai],
    currentSession |-> None,
    chatSessions |-> << >>,
    searchFilters |-> [keyword |-> EmptyString, active |-> TRUE, limit |-> 50, offset |-> 0],
    favorites |-> << >>,
    vectorSearchResults |-> << >>,
    semanticSearchResults |-> None,
    isVectorSearching |-> FALSE,
    workingLists |-> << >>,
    currentWorkingList |-> None,
    workingListItems |-> << >>,
    isWorkingListLoading |-> FALSE,
    uploadedFiles |-> << >>,
    currentView |-> <<"chat">>,
    theme |-> <<"light">>,
    samApiKey |-> env.sam,
    encryptionKey |-> EmptyString,
    settings |-> [autoSave |-> TRUE, notifications |-> TRUE, analytics |-> FALSE] ]

\* encryptData(data, key): a text from which the key recovers the data
encryptData(data, key) == <<"encrypted">> \o key \o <<":">> \o data

setLLMConfig(s, config) == [s EXCEPT !.llmConfig = Spread(s.llmConfig, config)]

setLLMApiKey(s, apiKey) == [s EXCEPT !.llmConfig = Spread(s.llmConfig, [apiKey |-> apiKey])]

\* t1, t2: the two readings of Date.now()
createChatSession(s, id, title, t1, t2) ==
  LET session == [id |-> id, title |-> OrStr(title, <<"New Chat">>), messages |-> << >>,
                  createdAt |-> t1, updatedAt |-> t2, llmConfig |-> s.llmConfig]
  IN [s EXCEPT !.chatSessions = Append(s.chatSessions, session),
               !.currentSession = Some(session)]

IsCurrent(s, sessionId) ==
  s.currentSession # None /\ s.currentSession[1].id = sessionId

\* t1: Date.now() as read for the entry of chatSessions, t2: as read for
\* currentSession
updateSession(s, sessionId, updates, t1, t2) ==
  LET upd(session) == Spread(Spread(session, updates), [updatedAt |-> t1])
  IN [s EXCEPT
        !.chatSessions = MapWhereId(s.chatSessions, sessionId, upd),
        !.currentSession =
          IF IsCurrent(s, sessionId)
            THEN Some(Spread(Spread(s.currentSession[1], updates), [updatedAt |-> t2]))
            ELSE s.currentSession]

deleteSession(s, sessionId) ==
  [s EXCEPT !.chatSessions = FilterOutId(s.chatSessions, sessionId),
            !.currentSession = IF IsCurrent(s, sessionId) THEN None ELSE s.currentSession]

addMessageToSession(s, sessionId, message, t1, t2) ==
  LET add(session) ==
        Spread(session, [messages |-> Append(session.messages, message), updatedAt |-> t1])
  IN [s EXCEPT
        !.chatSessions = MapWhereId(s.chatSessions, sessionId, add),
        !.currentSession =
          IF IsCurrent(s, sessionId)
            THEN Some(Spread(s.currentSession[1],
                             [messages |-> Append(s.currentSession[1].messages, message),
                              updatedAt |-> t2]))
            ELSE s.currentSession]

updateMessageInSession(s, sessionId, messageId, updates, t1, t2) ==
  LET msg(m) == Spread(m, updates)
      upd(session) ==
        Spread(session, [messages |-> MapWhereId(session.messages, messageId, msg),
                         updatedAt |-> t1])
  IN [s EXCEPT
        !.chatSessions = MapWhereId(s.chatSessions, sessionId, upd),
        !.currentSession =
          IF IsCurrent(s, sessionId)
            THEN Some(Spread(s.currentSession[1],
                             [messages |-> MapWhereId(s.currentSession[1].messages,
                                                      messageId, msg),
                              updatedAt |-> t2]))
            ELSE s.currentSession]

clearAllSessions(s) == [s EXCEPT !.chatSessions = << >>, !.currentSession = None]

addUploadedFile(s, file) == [s EXCEPT !.uploadedFiles = Append(s.uploadedFiles, file)]

updateUploadedFile(s, fileId, updates) ==
  LET upd(file) == Spread(file, updates)
  IN [s EXCEPT !.uploadedFiles = MapWhereId(s.uploadedFiles, fileId, upd)]

removeUploadedFile(s, fileId) ==
  [s EXCEPT !.uploadedFiles = FilterOutId(s.uploadedFiles, fileId)]

clearAllUploads(s) == [s EXCEPT !.uploadedFiles = << >>]

\* encryptionKey ? encryptData(apiKey, encryptionKey) : apiKey
setSamApiKey(s, apiKey) ==
  [s EXCEPT !.samApiKey = IF Truthy(s.encryptionKey)
                            THEN encryptData(apiKey, s.encryptionKey) ELSE apiKey]

setEncryptionKey(s, key) == [s EXCEPT !.encryptionKey = key]

resetStore(s, env) == Spread(s, initialState(env))

\* data: the text given, as JSON.parse reads it: [ok, value], value the object
\* parsed; a text that is no JSON is logged and changes nothing
importData(s, data) == IF data.ok THEN Spread(s, data.value) ELSE s

\* An action that calls the server runs in two steps: to its await of fetch
\* (Started), and from the settling of the call to its end (Settled).  The
\* call settles with a response, ok or not, or throws; a response that is ok
\* throws when its body cannot be read as the action reads it.
Started == [phase |-> "start"]

Settled(ok, thrown, data) == [phase |-> "settle", ok |-> ok, thrown |-> thrown, data |-> data]

Fulfilled(step) == step.ok /\ ~step.thrown

performVectorSearch(s, step) ==
  IF step.phase = "start" THEN [s EXCEPT !.isVectorSearching = TRUE]
  ELSE IF Fulfilled(step)
    THEN [s EXCEPT !.vectorSearchResults = step.data.results,
                   !.semanticSearchResults = Some(step.data),
                   !.isVectorSearching = FALSE]
  ELSE [s EXCEPT !.isVectorSearching = FALSE]

createWorkingListStuck(s, step) ==
  IF step.phase = "start" THEN [s EXCEPT !.isWorkingListLoading = TRUE]
  ELSE IF Fulfilled(step)
    THEN [s EXCEPT !.workingLists = Append(s.workingLists, step.data.list),
                   !.isWorkingListLoading = FALSE]
  ELSE IF step.thrown THEN s
  ELSE [s EXCEPT !.isWorkingListLoading = FALSE]

\* a response that is not ok and a call that throws both end in the catch,
\* which clears the flag and rethrows
createWorkingList(s, step) ==
  IF step.phase = "start" THEN [s EXCEPT !.isWorkingListLoading = TRUE]
  ELSE IF Fulfilled(step)
    THEN [s EXCEPT !.workingLists = Append(s.workingLists, step.data.list),
                   !.isWorkingListLoading = FALSE]
  ELSE [s EXCEPT !.isWorkingListLoading = FALSE]

IsCurrentList(s, listId) ==
  s.currentWorkingList # None /\ s.currentWorkingList[1].id = listId

updateWorkingList(s, listId, step) ==
  IF step.phase = "settle" /\ Fulfilled(step)
    THEN LET updated(list) == step.data.list
         IN [s EXCEPT !.workingLists = MapWhereId(s.workingLists, listId, updated),
                      !.currentWorkingList =
                        IF IsCurrentList(s, listId) THEN Some(step.data.list)
                        ELSE s.currentWorkingList]
    ELSE s

deleteWorkingList(s, listId, step) ==
  IF step.phase = "settle" /\ Fulfilled(step)
    THEN [s EXCEPT !.workingLists = FilterOutId(s.workingLists, listId),
                   !.currentWorkingList =
                     IF IsCurrentList(s, listId) THEN None ELSE s.currentWorkingList]
    ELSE s

addItemToWorkingList(s, step) ==
  IF step.phase = "settle" /\ Fulfilled(step)
    THEN [s EXCEPT !.workingListItems = Append(s.workingListItems, step.data.item)]
    ELSE s

updateWorkingListItem(s, itemId, step) ==
  IF step.phase = "settle" /\ Fulfilled(step)
    THEN LET updated(item) == step.data.item
         IN [s EXCEPT !.workingListItems = MapWhereId(s.workingListItems, itemId, updated)]
    ELSE s

removeItemFromWorkingList(s, itemId, step) ==
  IF step.phase = "settle" /\ Fulfilled(step)
    THEN [s EXCEPT !.workingListItems = FilterOutId(s.workingListItems, itemId)]
    ELSE s

\* the part of the state the persist middleware writes to localStorage
partialize(s) ==
  [ llmConfig |-> Spread(s.llmConfig, [apiKey |-> EmptyString]),
    chatSessions |-> s.chatSessions,
    favorites |-> s.favorites,
    searchFilters |-> s.searchFilters,
    uploadedFiles |-> [i \in 1..Len(s.uploadedFiles) |->
                         Spread(s.uploadedFiles[i], [content |-> EmptyString])],
    settings |-> s.settings,
    theme |-> s.theme,
    currentView |-> s.currentView,
    encryptionKey |-> s.encryptionKey ]

\* ----------------------------------------------------------------- state

VARIABLES
  now,                 \* Date.now()
  ticks,               \* how often the clock has been advanced
  samRateLimitMap,     \* clientIp -> [count, timestamp]
  searchResultsCache,  \* JSON.stringify(filters) -> [data, timestamp]
  redisCache,          \* the store behind withCache: key -> [payload, storedAt]
  embeddingCache,      \* `${provider}:${text}` -> vector, in insertion order
  vectorStore,         \* the ids of the opportunities pushed to the vector store
  providerModel,       \* the embedding provider's model: text -> vector
  resp,                \* the response to the last request, until time passes
  fetched,             \* cache key -> the time of its last successful upstream fetch
  rl,                  \* the last checkSAMRateLimit call, as the caller saw it
  window,              \* per client: the rate window as the requests define it
  embedded,            \* the last direct generateEmbeddings call, as the caller saw it
  ranking,             \* the last direct performSemanticSearch call: input and output
  memo,                \* embedding key -> the vector last returned for it, and
                       \* whether the cleanup has evicted the key since it was stored
  keyed,               \* the last two requests whose filters and cache keys were
                       \* computed directly: query, day, filters, keys
  inflight,            \* the requests whose handler is suspended at the await of
                       \* searchSAMOpportunities: [req, filters, key], in arrival order
  store,               \* the state of the client's store
  pending,             \* the client's server calls in flight: [action, args, at]
  acted                \* the last action of the client store, as its caller saw it

vars == <<now, ticks, samRateLimitMap, searchResultsCache, redisCache, embeddingCache,
          vectorStore, providerModel, resp, fetched, rl, window, embedded, ranking, memo,
          keyed, inflight, store, pending, acted>>

client == <<store, pending, acted>>

calls == <<embedded, ranking, memo>>

caches == <<searchResultsCache, redisCache, embeddingCache, vectorStore>>

NoKeyed == [made |-> FALSE]

NoResponse == [status |-> 0]

Responded == resp.status # 0

NoEnv == [openai |-> EmptyString, sam |-> EmptyString]

NoAct == [n |-> 0, name |-> "none"]

InitServer ==
  /\ now = 0
  /\ ticks = 0
  /\ samRateLimitMap = EmptyMap
  /\ searchResultsCache = EmptyMap
  /\ redisCache = EmptyMap
  /\ embeddingCache = << >>
  /\ vectorStore = {}
  /\ resp = NoResponse
  /\ fetched = EmptyMap
  /\ rl = NoRateCall
  /\ window = EmptyMap
  /\ embedded = [called |-> FALSE]
  /\ ranking = [called |-> FALSE]
  /\ memo = EmptyMap
  /\ keyed = NoKeyed
  /\ inflight = << >>

InitState ==
  /\ InitServer
  /\ store = initialState(NoEnv)
  /\ pending = << >>
  /\ acted = NoAct

\* ----------------------------------------------------------------- clock

RateTickSteps == {1, SAM_RATE_LIMIT_WINDOW}

Tick(d, max) ==
  /\ ticks < max
  /\ now' = now + d
  /\ ticks' = ticks + 1

\* ------------------------------------------- specification: the rate limiter

RateHeaders ==
  { [xff |-> ipA, xreal |-> ipB], [xff |-> Null, xreal |-> ipB],
    [xff |-> << >>, xreal |-> Null], [xff |-> Null, xreal |-> Null] }

\* the requests the environment sends: the primary client without limit, the
\* others in short bursts; the senders without identity have one request more
\* between them
BurstAllowed(ip) ==
  IF ip = ipA \/ ip \notin DOMAIN samRateLimitMap THEN TRUE
  ELSE IF WindowPassed(now, samRateLimitMap[ip].timestamp) THEN TRUE
  ELSE samRateLimitMap[ip].count < MaxOtherBurst + (IF ip = unknown THEN 1 ELSE 0)

InitRate ==
  /\ InitState
  /\ providerModel = EmptyMap

RateRequest ==
  \E h \in RateHeaders :
    LET ip == clientIpOf(h)
        r == checkSAMRateLimit(samRateLimitMap, ip, now)
    IN /\ BurstAllowed(ip)
       /\ samRateLimitMap' = r.map
       /\ rl' = RateCall(window, h, ip, now, r.allowed)
       /\ window' = WindowAfter(window, ip, now, r.allowed)
       /\ UNCHANGED <<now, ticks, caches, providerModel, client, inflight, keyed, resp, fetched, calls>>

RateTick ==
  \E d \in RateTickSteps :
    /\ Tick(d, MaxRateTicks)
    /\ UNCHANGED <<samRateLimitMap, rl, window, caches, providerModel, client, inflight, keyed, resp, fetched, calls>>

NextRate == RateRequest \/ RateTick

SpecRate == InitRate /\ [][NextRate]_vars


\* ------------------------------------------------------- the handler's step

\* what is recorded of a request and of the handler's outcome for it
Observe(out, indexed, req, env) ==
  LET held == out.key # Null /\ out.key \in DOMAIN searchResultsCache
  IN [status |-> out.status, body |-> out.body, trace |-> out.trace,
      req |-> req, key |-> out.key, filters |-> out.filters, t |-> now,
      answer |-> IF out.trace.upstream = 1 THEN env.answer ELSE Null,
      params |-> IF out.trace.upstream = 1 THEN UpstreamParams(out.filters) ELSE << >>,
      failing |-> env.failing, vsFailing |-> env.vsFailing,
      indexed |-> [status |-> indexed.status, body |-> indexed.body],
      changed |-> [rate |-> out.rate # samRateLimitMap,
                   src |-> out.src # searchResultsCache,
                   redis |-> out.redis # redisCache,
                   emb |-> out.emb # embeddingCache,
                   vs |-> out.vs # vectorStore],
      entryAge |-> IF held THEN now - searchResultsCache[out.key].timestamp ELSE -1,
      entryData |-> IF held THEN searchResultsCache[out.key].data ELSE Null,
      sinceFetch |-> IF out.key # Null /\ out.key \in DOMAIN fetched
                       THEN now - fetched[out.key] ELSE -1,
      afterFailure |-> /\ Responded /\ resp.status = 500
                       /\ resp.trace.upstream = 1 /\ resp.key = out.key]

\* what the handler would answer if every vector-store push succeeded
Indexed(req, env) ==
  Handle([rate |-> samRateLimitMap, src |-> searchResultsCache,
          redis |-> redisCache, emb |-> embeddingCache,
          vs |-> vectorStore, model |-> providerModel], req, now,
         [env EXCEPT !.vsFailing = {}])

\* GET(req): the whole handler on the current state; env is what the upstream
\* registry, the embedding provider and the vector store do if called
GET(req, env) ==
  \E out \in {Handle([rate |-> samRateLimitMap, src |-> searchResultsCache,
                      redis |-> redisCache, emb |-> embeddingCache,
                      vs |-> vectorStore, model |-> providerModel], req, now, env)} :
   \E indexed \in {IF env.vsFailing = {} THEN out ELSE Indexed(req, env)} :
     /\ samRateLimitMap' = out.rate
     /\ searchResultsCache' = out.src
     /\ redisCache' = out.redis
     /\ embeddingCache' = out.emb
     /\ vectorStore' = out.vs
     /\ resp' = Observe(out, indexed, req, env)
     /\ fetched' = IF out.status = 200 /\ out.trace.upstream = 1
                     THEN Put(fetched, out.key, now) ELSE fetched
     /\ rl' = RateCall(window, req, clientIpOf(req), now, out.rate # samRateLimitMap)
     /\ window' = WindowAfter(window, clientIpOf(req), now, out.rate # samRateLimitMap)
     /\ UNCHANGED <<now, ticks, providerModel, client, inflight, keyed, calls>>

\* the setInterval callback: trims the embedding cache and sweeps the search
\* results cache
EMBEDDING_CACHE_MAX == 1000

EMBEDDING_CACHE_KEEP == 500

TrimEmbeddingCacheOldest(cache) ==
  IF Len(cache) > EMBEDDING_CACHE_MAX
    THEN SubSeq(cache, 1, EMBEDDING_CACHE_KEEP)
    ELSE cache

\* entries.slice(-500)
TrimEmbeddingCache(cache) ==
  IF Len(cache) > EMBEDDING_CACHE_MAX
    THEN SubSeq(cache, Len(cache) - EMBEDDING_CACHE_KEEP + 1, Len(cache))
    ELSE cache

SweepExpiredLate(t, timestamp) == t - timestamp > SamSearchTTL

\* now - value.timestamp > CACHE_DURATION
SweepExpired(t, timestamp) == t - timestamp > CACHE_DURATION

SweepSearchResults(cache, t) ==
  Remove(cache, {k \in DOMAIN cache : SweepExpired(t, cache[k].timestamp)})

\* the keys of memo that the trim removes are marked as evicted
Evict(m, before, after) ==
  [k \in DOMAIN m |->
     [m[k] EXCEPT !.evicted = @ \/ (CacheHas(before, k) /\ ~CacheHas(after, k))]]

Cleanup ==
  \E trimmed \in {TrimEmbeddingCache(embeddingCache)} :
    /\ embeddingCache' = trimmed
    /\ searchResultsCache' = SweepSearchResults(searchResultsCache, now)
    /\ memo' = Evict(memo, embeddingCache, trimmed)
    /\ UNCHANGED <<now, ticks, samRateLimitMap, redisCache, vectorStore, providerModel, client, inflight, keyed,
                   resp, fetched, rl, window, embedded, ranking>>

\* time passes; the response, if any, has been delivered
Pass(d, max) ==
  /\ Tick(d, max)
  /\ resp' = NoResponse
  /\ rl' = NoRateCall
  /\ UNCHANGED <<samRateLimitMap, caches, providerModel, client, inflight, keyed, fetched, window, calls>>

\* ------------------------------------------------------------ environment

uav == <<"u", "a", "v">>

SamKey == <<"k">>

BaseReq ==
  [ xff |-> ipA, xreal |-> Null, authorization |-> Null,
    q |-> Null, startDate |-> Null, endDate |-> Null, naicsCode |-> Null,
    state |-> Null, agency |-> Null, type |-> Null, setAside |-> Null,
    active |-> Null, limit |-> Null, offset |-> Null, semantic |-> Null,
    provider |-> Null, samApiKey |-> SamKey, entityName |-> Null,
    contractVehicle |-> Null, classificationCode |-> Null, fundingSource |-> Null,
    responseDeadlineFrom |-> Null, responseDeadlineTo |-> Null,
    estimatedValueMin |-> Null, estimatedValueMax |-> Null, hasAttachments |-> Null ]

Listing(id, title, description, synopsis) ==
  [noticeId |-> id, solicitationNumber |-> Null, title |-> title,
   description |-> description, synopsis |-> synopsis]

ListingA == Listing(<<"A">>, <<"a">>, <<"x">>, Null)

ListingB == Listing(<<"B">>, <<"b">>, Null, Null)

Answer(listings) ==
  [ok |-> TRUE, status |-> 200, statusText |-> <<"OK">>, body |-> << >>,
   errorMessage |-> Null, listings |-> listings]

\* HTTP 500 with the body {"errorMessage":"down"}
Answer500 ==
  [ok |-> FALSE, status |-> 500, statusText |-> <<"Internal Server Error">>,
   body |-> <<"{", "\"", "errorMessage", "\"", ":", "\"", "d", "o", "w", "n", "\"", "}">>,
   errorMessage |-> <<"d", "o", "w", "n">>, listings |-> << >>]

Env(answer) == [answer |-> answer, failing |-> {}, order |-> "forward", vsFailing |-> {}]

\* the client's burst within one rate window is bounded
Burst(req, max) ==
  LET ip == clientIpOf(req)
  IN IF ip \notin DOMAIN samRateLimitMap THEN TRUE
     ELSE IF WindowPassed(now, samRateLimitMap[ip].timestamp) THEN TRUE
     ELSE samRateLimitMap[ip].count < max

\* -------------------------------------- specification: the response caches

MaxTicks == 3

MaxBurst == 3

CacheTickSteps == {1, CACHE_DURATION - 1, SamSearchTTL - CACHE_DURATION + 1}

CacheRequests == {BaseReq, [BaseReq EXCEPT !.q = uav]}

CacheAnswers == {Answer(<<ListingA, ListingB>>), Answer500}

Init ==
  /\ InitState
  /\ providerModel = EmptyMap

Search ==
  \E req \in CacheRequests, answer \in CacheAnswers :
    /\ Burst(req, MaxBurst)
    /\ GET(req, Env(answer))

Elapse == \E d \in CacheTickSteps : Pass(d, MaxTicks)

Next == Search \/ Elapse \/ Cleanup

Spec == Init /\ [][Next]_vars


\* ------------------------------------------- specification: admission
\* one client sends requests, with and without the upstream credential, until
\* the limiter rejects them

MaxAdmitTicks == 1

AdmitRequests ==
  {BaseReq, [BaseReq EXCEPT !.samApiKey = Null], [BaseReq EXCEPT !.samApiKey = << >>]}

AdmitAnswers == {Answer(<<ListingB>>), Answer500}

AdmitSearch ==
  \E req \in AdmitRequests, answer \in AdmitAnswers : GET(req, Env(answer))

AdmitElapse == Pass(SAM_RATE_LIMIT_WINDOW + 1, MaxAdmitTicks)

NextAdmit == AdmitSearch \/ AdmitElapse \/ Cleanup

SpecAdmit == Init /\ [][NextAdmit]_vars

\* ------------------------------------------- specification: pagination
\* a client sends up to MaxQueryBurst requests that differ in limit and offset

MaxQueryBurst == 2

LimitInputs ==
  { Null, <<"0">>, <<"7">>, <<"1", "0", "0">>, <<"1", "0", "1">>, <<"2", "0", "0">>,
    <<"-", "5">>, <<"a", "b", "c">>, <<"1", "2", "a", "b", "c">> }

OffsetInputs == { Null, <<"0">>, <<"3">>, <<"-", "2">>, <<"x">> }

QueryRequests ==
  { [BaseReq EXCEPT !.limit = l, !.offset = o] : l \in LimitInputs, o \in OffsetInputs }

Query ==
  \E req \in QueryRequests :
    /\ Burst(req, MaxQueryBurst)
    /\ GET(req, Env(Answer(<<ListingA, ListingB>>)))

NextQuery == Query

SpecQuery == Init /\ [][NextQuery]_vars

\* ------------------------------------- specification: the embedding cache
\* direct calls of generateEmbeddings for one text, before and after the
\* rankings of MaxEmbedPages pages of fresh candidates, which fill the cache
\* up to the trim

MaxEmbedPages == 10

embedText == <<"a">>

EmbedProviders == {openai, huggingface, <<"x">>}

EmbedModel == Put(EmptyMap, embedText, <<3, 4>>)

Candidate(n, title) ==
  TransformListing(Listing(NatToString(n), title, Null, Null))

\* page p of the registry: UPSTREAM_MAX_LIMIT listings titled by their number
PageOf(p) ==
  [i \in 1..UPSTREAM_MAX_LIMIT |->
     Candidate(UPSTREAM_MAX_LIMIT * p + i, NatToString(UPSTREAM_MAX_LIMIT * p + i))]

PagesRanked == IF ranking.called THEN ranking.page + 1 ELSE 0

InitEmbed ==
  /\ InitState
  /\ providerModel = EmbedModel

\* what a caller of generateEmbeddings observes, and what memo knew of the key
EmbedCall(key, r, provider, fails) ==
  [called |-> TRUE, key |-> key, ok |-> r.ok, value |-> r.value, net |-> r.net,
   unsupported |-> r.unsupported,
   provider |-> provider, fails |-> fails,
   cached |-> CacheHas(embeddingCache, key),
   cacheChanged |-> r.cache # embeddingCache,
   afterFailure |-> embedded.called /\ ~embedded.ok /\ embedded.key = key,
   known |-> key \in DOMAIN memo,
   prior |-> IF key \in DOMAIN memo THEN memo[key].value ELSE << >>,
   evicted |-> IF key \in DOMAIN memo THEN memo[key].evicted ELSE FALSE]

Embed ==
  \E provider \in EmbedProviders, fails \in BOOLEAN :
    /\ PagesRanked \in {0, MaxEmbedPages}
    /\ \E r \in {generateEmbeddings(embeddingCache, embedText, provider, providerModel,
                                 IF fails THEN {embedText} ELSE {})} :
         /\ embeddingCache' = r.cache
         /\ embedded' = EmbedCall(EmbeddingKey(provider, embedText), r, provider, fails)
         /\ memo' = IF r.ok
                      THEN Put(memo, EmbeddingKey(provider, embedText),
                               [value |-> r.value, evicted |-> FALSE])
                      ELSE memo
         /\ UNCHANGED <<now, ticks, samRateLimitMap, searchResultsCache, redisCache,
                        vectorStore, providerModel, client, inflight, keyed, resp, fetched, rl, window, ranking>>

\* the ranking of the next page against the query "q"
EmbedPage ==
  /\ PagesRanked < MaxEmbedPages
  /\ \E r \in {performSemanticSearch(PageOf(PagesRanked), <<"q">>, openai, embeddingCache,
                                     providerModel, {}, "forward")} :
       /\ embeddingCache' = r.cache
       /\ ranking' = [called |-> TRUE, page |-> PagesRanked, net |-> r.net,
                      ranked |-> r.ranked, size |-> Len(r.result)]
       /\ UNCHANGED <<now, ticks, samRateLimitMap, searchResultsCache, redisCache,
                      vectorStore, providerModel, client, inflight, keyed, resp, fetched, rl, window, embedded,
                      memo>>

NextEmbed == Embed \/ EmbedPage \/ Cleanup

SpecEmbed == InitEmbed /\ [][NextEmbed]_vars

\* ----------------------------------------- specification: the ranker
\* performSemanticSearch on candidate lists of several lengths around TOP_N,
\* whose texts repeat in a pattern, with and without failing provider calls

MaxCandidates == 26

MaxRankings == 1

RankTitles == << <<"x">>, <<"y">>, <<"z">>, <<"w">> >>

RankText(title) == OpportunityText(Candidate(0, title))

\* scores against the query's vector <<1, 0>>: x 15/25, y 20/25, z 0, w 0
RankModel ==
  Put(Put(Put(Put(EmptyMap, RankText(<<"x">>), <<3, 4>>), RankText(<<"y">>), <<4, 3>>),
          RankText(<<"z">>), <<0, 1>>), RankText(<<"w">>), <<0, 0>>)

RankPatterns == {<<0, 0>>, <<1, 0>>, <<1, 2>>, <<3, 1>>, <<2, 0>>, <<2, 1>>}

Candidates(n, pattern) ==
  [i \in 1..n |->
     Candidate(i, RankTitles[((i * pattern[1] + pattern[2]) % Len(RankTitles)) + 1])]

RankLengths == (0..3) \cup ((TOP_N - 1)..MaxCandidates)

RankQueries == {<<"q">>, <<" ">>, << >>}

RankOutcomes == {"none", "query", "last", "provider"}

\* the provider named: with "provider", one generateEmbeddings does not support
RankProvider(which) == IF which = "provider" THEN <<"x">> ELSE openai

\* the texts for which the provider fails
RankFailing(candidates, query, which) ==
  IF which = "query" THEN {query}
  ELSE IF which = "last" /\ candidates # << >>
    THEN {OpportunityText(candidates[Len(candidates)])}
  ELSE {}

RankingsDone == IF ranking.called THEN ranking.count ELSE 0

InitRank ==
  /\ InitState
  /\ providerModel = RankModel

RankCall(candidates, query, which, r) ==
  [called |-> TRUE, count |-> RankingsDone + 1, input |-> candidates, query |-> query,
   failing |-> which, result |-> r.result, ranked |-> r.ranked, net |-> r.net,
   cacheChanged |-> r.cache # embeddingCache,
   failed |-> EmbeddingFailure(candidates, query, RankProvider(which), embeddingCache,
                               providerModel, RankFailing(candidates, query, which))]

RankList ==
  /\ RankingsDone < MaxRankings
  /\ \E n \in RankLengths, pattern \in RankPatterns, query \in RankQueries,
        which \in RankOutcomes :
       \E candidates \in {Candidates(n, pattern)} :
         \E r \in {performSemanticSearch(candidates, query, RankProvider(which),
                                         embeddingCache,
                                         providerModel,
                                         RankFailing(candidates, query, which),
                                         "forward")} :
           /\ embeddingCache' = r.cache
           /\ ranking' = RankCall(candidates, query, which, r)
           /\ UNCHANGED <<now, ticks, samRateLimitMap, searchResultsCache, redisCache,
                          vectorStore, providerModel, client, inflight, keyed, resp, fetched, rl, window,
                          embedded, memo>>

NextRank == RankList

SpecRank == InitRank /\ [][NextRank]_vars

\* ------------------------------------------- specification: semantic search
\* requests for one keyword, with and without semantic ranking, while the
\* embedding provider and the vector store work or fail

MaxSemTicks == 1

MaxSemBurst == 2

Token == Bearer \o <<"t">>

SemRequests ==
  { [BaseReq EXCEPT !.q = uav, !.semantic = s, !.authorization = a, !.provider = p] :
      s \in {Null, TrueString}, a \in {Null, Token}, p \in {Null, <<"x">>} }

\* against the query's vector <<1, 0>>, listing A scores 0 and listing B 20/25
SemModel ==
  Put(Put(EmptyMap, OpportunityText(TransformListing(ListingA)), <<0, 1>>),
      OpportunityText(TransformListing(ListingB)), <<4, 3>>)

SemFailing == { {}, {uav}, {OpportunityText(TransformListing(ListingB))} }

SemIndexFailing == { {}, {ListingA.noticeId} }

SemAnswers == {Answer(<<ListingA, ListingB>>), Answer500}

InitSem ==
  /\ InitState
  /\ providerModel = SemModel

SemSearch ==
  \E req \in SemRequests, answer \in SemAnswers, failing \in SemFailing,
     vsFailing \in SemIndexFailing :
    /\ Burst(req, MaxSemBurst)
    /\ GET(req, [answer |-> answer, failing |-> failing, order |-> "forward",
                 vsFailing |-> vsFailing])

SemElapse == Pass(CACHE_DURATION, MaxSemTicks)

NextSem == SemSearch \/ SemElapse \/ Cleanup

SpecSem == InitSem /\ [][NextSem]_vars

\* ------------------------------------------ specification: result pages
\* requests for one keyword, with and without semantic ranking, against
\* upstream pages of several lengths around TOP_N

MaxPageTicks == 1

MaxPageBurst == 2

PageLengths == {0, 1, TOP_N, TOP_N + 1}

\* an upstream page of n listings whose titles repeat x, y, z, w
UpstreamPage(n) ==
  [i \in 1..n |-> Listing(NatToString(i), RankTitles[(i % Len(RankTitles)) + 1], Null, Null)]

PageRequests ==
  { [BaseReq EXCEPT !.q = uav, !.semantic = s, !.authorization = Token] :
      s \in {Null, TrueString} }

PageFailing == { {}, {uav} }

InitPage ==
  /\ InitState
  /\ providerModel = RankModel

PageSearch ==
  \E req \in PageRequests, n \in PageLengths, failing \in PageFailing :
    /\ Burst(req, MaxPageBurst)
    /\ GET(req, [answer |-> Answer(UpstreamPage(n)), failing |-> failing,
                 order |-> "forward", vsFailing |-> {}])

PageElapse == Pass(CACHE_DURATION, MaxPageTicks)

NextPage == PageSearch \/ PageElapse

SpecPage == InitPage /\ [][NextPage]_vars

\* ------------------------------------ specification: filters and cache keys
\* the filters and the cache keys of requests, computed as GET computes them
\* from the query string and the day of the request; the last two requests
\* are kept

\* URLSearchParams.get: the value of the first parameter of that name, or null
searchParamsGet(params, name) ==
  IF \E i \in 1..Len(params) : params[i][1] = name
    THEN params[CHOOSE i \in 1..Len(params) :
                  /\ params[i][1] = name
                  /\ \A j \in 1..(i - 1) : params[j][1] # name][2]
    ELSE Null

HeaderNames == {"xff", "xreal", "authorization"}

\* the request with the query string `params`
RequestOf(params) ==
  [f \in DOMAIN BaseReq |->
     IF f \in HeaderNames THEN BaseReq[f] ELSE searchParamsGet(params, f)]

\* filters, cacheKey (the search results cache) and the key of withCache
Keying(params, today, req, filters, key) ==
  [params |-> params, day |-> today, req |-> req, filters |-> filters,
   key |-> key, redisKey |-> generateCacheKey(key, "sam-search")]

Fingerprint(queries, days) ==
  \E params \in queries, today \in days :
   \E req \in {RequestOf(params)} :
   \E filters \in {FiltersOn(req, today)} :
   \E key \in {JSONStringifyFilters(filters)} :
    /\ keyed.made => today >= keyed.last.day
    /\ keyed' = [made |-> TRUE, last |-> Keying(params, today, req, filters, key),
                 prev |-> IF keyed.made THEN <<keyed.last>> ELSE << >>]
    /\ UNCHANGED <<now, ticks, samRateLimitMap, caches, providerModel, client, inflight, resp, fetched,
                   rl, window, calls>>

ISODate == <<"2", "0", "2", "4", "-", "0", "1", "-", "0", "5">>

SAMDate == <<"0", "1", "/", "0", "5", "/", "2", "0", "2", "4">>

\* 1970-01-01, 2023-12-31, 2024-03-01, 2024-03-30, 2024-03-31, 2024-12-31,
\* 2025-03-01, 2026-11-06, 2026-11-07
DateDays == {0, 19722, 19783, 19812, 19813, 20088, 20148, 20763, 20764}

\* new Date("abc") is an Invalid Date
NotADate == <<"a", "b", "c">>

DateInputs == {"startDate", "endDate", "responseDeadlineFrom", "responseDeadlineTo"}

DateQueries ==
  { << >>, << <<"q", uav>> >>, << <<"startDate", ISODate>> >>,
    << <<"endDate", SAMDate>> >>, << <<"limit", <<"5">>>>, <<"q", uav>> >>,
    << <<"responseDeadlineFrom", ISODate>>, <<"responseDeadlineTo", NotADate>> >> }
  \cup { << <<name, NotADate>> >> : name \in DateInputs }

DefaultDates == Fingerprint(DateQueries, DateDays)

NextDates == DefaultDates

SpecDates == Init /\ [][NextDates]_vars

KeyPool ==
  { <<"q", uav>>, <<"limit", <<"5", "0">>>>, <<"limit", <<"a", "b", "c">>>>,
    <<"startDate", ISODate>>, <<"startDate", SAMDate>>,
    <<"active", FalseString>>, <<"semantic", TrueString>> }

\* query strings of at most two parameters with different names, in either order
KeyQueries ==
  {<< >>} \cup { <<a>> : a \in KeyPool }
          \cup { <<pair[1], pair[2]>> :
                   pair \in {p \in KeyPool \X KeyPool : p[1][1] # p[2][1]} }

\* 2026-11-06, 2026-11-07
KeyDays == {20763, 20764}

CacheKeys == Fingerprint(KeyQueries, KeyDays)

NextKeys == CacheKeys

SpecKeys == Init /\ [][NextKeys]_vars

\* ------------------------------------- specification: concurrent requests
\* A handler runs without interruption from the arrival of its request to its
\* first await (the limiter, the parameters, the key check, the read of the
\* search results cache, the call of searchSAMOpportunities), and is resumed
\* when the fetch settles; between the two other requests arrive and other
\* handlers are resumed, in any order.

MaxInflight == 2

MaxConcTicks == 1

\* the handler has reached the await: no response yet
Awaiting(st, rate, filters, key) ==
  [status |-> 0, body |-> << >>,
   rate |-> rate.map, src |-> st.src, redis |-> st.redis, emb |-> st.emb, vs |-> st.vs,
   key |-> key, filters |-> filters,
   trace |-> [NoTrace EXCEPT !.rateChecked = TRUE, !.srcRead = TRUE]]

\* the handler from the arrival of the request to its first await
Arrival(st, req, t, rate, filters, key) ==
  IF ~rate.allowed THEN Rejected(st, rate)
  ELSE IF ~Truthy(req.samApiKey) THEN KeyRequired(st, rate)
  ELSE IF SrcLive(st.src, key, t) THEN CacheHit(st, rate, filters, key, t)
  ELSE Awaiting(st, rate, filters, key)

\* the handler from the settling of the fetch to the response
Resumption(st, h, t, env, found) ==
  IF found.ok
    THEN Succeeded(st, [allowed |-> TRUE, map |-> st.rate], h.req, h.filters, h.key, t,
                   found, env)
    ELSE Failed(st, [allowed |-> TRUE, map |-> st.rate], h.filters, h.key, t, found)

Program ==
  [rate |-> samRateLimitMap, src |-> searchResultsCache, redis |-> redisCache,
   emb |-> embeddingCache, vs |-> vectorStore, model |-> providerModel]

Arrive(req) ==
  \E rate \in {checkSAMRateLimit(samRateLimitMap, clientIpOf(req), now)} :
  \E filters \in {BuildFilters(req, now)} :
  \E out \in {Arrival(Program, req, now, rate, filters, JSONStringifyFilters(filters))} :
    /\ out.status = 0 => Len(inflight) < MaxInflight
    /\ samRateLimitMap' = out.rate
    /\ inflight' = IF out.status = 0
                     THEN Append(inflight, [req |-> req, filters |-> out.filters,
                                            key |-> out.key])
                     ELSE inflight
    /\ resp' = Observe(out, out, req, Env(Answer(<< >>)))
    /\ rl' = RateCall(window, req, clientIpOf(req), now, rate.allowed)
    /\ window' = WindowAfter(window, clientIpOf(req), now, rate.allowed)
    /\ UNCHANGED <<now, ticks, caches, providerModel, client, keyed, fetched, calls>>

Resume(i, env) ==
  \E found \in {searchSAMOpportunities(redisCache, inflight[i].filters, now, env.answer)} :
  \E out \in {Resumption(Program, inflight[i], now, env, found)} :
    /\ searchResultsCache' = out.src
    /\ redisCache' = out.redis
    /\ embeddingCache' = out.emb
    /\ vectorStore' = out.vs
    /\ inflight' = SubSeq(inflight, 1, i - 1) \o SubSeq(inflight, i + 1, Len(inflight))
    /\ resp' = Observe(out, out, inflight[i].req, env)
    /\ fetched' = IF out.status = 200 /\ out.trace.upstream = 1
                    THEN Put(fetched, out.key, now) ELSE fetched
    /\ UNCHANGED <<now, ticks, samRateLimitMap, providerModel, client, keyed, rl, window, calls>>

ConcRequests == {BaseReq}

ConcAnswers == {Answer(<<ListingB>>), Answer500}

ConcArrive == \E req \in ConcRequests : Arrive(req)

ConcResume ==
  \E i \in 1..Len(inflight), answer \in ConcAnswers : Resume(i, Env(answer))

ConcElapse ==
  /\ Tick(SAM_RATE_LIMIT_WINDOW + 1, MaxConcTicks)
  /\ UNCHANGED <<samRateLimitMap, caches, providerModel, client, keyed, inflight, resp, fetched,
                 rl, window, calls>>

NextConc == ConcArrive \/ ConcResume \/ ConcElapse

SpecConc == Init /\ [][NextConc]_vars


\* ------------------------------------- specification: the client's secrets
\* the actions of the client store that set keys, files and sessions, in any
\* order, from a build with or without keys in its environment

MaxSecretSteps == 3

MaxFiles == 2

MaxSessions == 2

server == <<now, ticks, samRateLimitMap, caches, providerModel, inflight, keyed, resp,
            fetched, rl, window, calls>>

LlmKey == <<"s", "k">>

SamSecret == <<"s", "a", "m">>

FileBody == <<"b", "o", "d", "y">>

FileA == [id |-> <<"f">>, name |-> <<"a">>, content |-> FileBody]

ClientEnvs == {NoEnv, [openai |-> <<"e", "n", "v">>, sam |-> <<"e", "n", "v", "s">>]}

NotJSON == [ok |-> FALSE]

Document(value) == [ok |-> TRUE, value |-> value]

SecretDocuments ==
  { NotJSON,
    Document([uploadedFiles |-> <<FileA>>]),
    Document([llmConfig |-> [DEFAULT_LLM_CONFIG EXCEPT !.apiKey = LlmKey]]),
    Document([samApiKey |-> SamSecret]) }

\* the two readings of Date.now() of the n-th action: the clock may tick
\* between them
ClockReadings(n) == {<<2 * n, 2 * n>>, <<2 * n, 2 * n + 1>>}

\* generateUUID(): an id no session has yet
FreshId(n) == <<"u">> \o NatToString(n)

InitClient ==
  /\ InitServer
  /\ providerModel = EmptyMap
  /\ store \in {initialState(env) : env \in ClientEnvs}
  /\ pending = << >>
  /\ acted = NoAct

\* one synchronous action of the store
Act(name, s, max) ==
  /\ acted.n < max
  /\ store' = s
  /\ acted' = [n |-> acted.n + 1, name |-> name]
  /\ UNCHANGED <<server, pending>>

SetLLMApiKey(max) ==
  \E apiKey \in {EmptyString, LlmKey} : Act("setLLMApiKey", setLLMApiKey(store, apiKey), max)

SetLLMConfig(max) ==
  \E config \in {[apiKey |-> LlmKey], [model |-> <<"gpt-4o">>]} :
    Act("setLLMConfig", setLLMConfig(store, config), max)

SetSamApiKey(max) == Act("setSamApiKey", setSamApiKey(store, SamSecret), max)

SetEncryptionKey(max) == Act("setEncryptionKey", setEncryptionKey(store, <<"e">>), max)

AddUploadedFile(max) ==
  /\ Len(store.uploadedFiles) < MaxFiles
  /\ Act("addUploadedFile", addUploadedFile(store, FileA), max)

UpdateUploadedFile(max) ==
  /\ store.uploadedFiles # << >>
  /\ Act("updateUploadedFile",
         updateUploadedFile(store, FileA.id, [content |-> FileBody \o FileBody]), max)

RemoveUploadedFile(max) ==
  /\ store.uploadedFiles # << >>
  /\ Act("removeUploadedFile", removeUploadedFile(store, FileA.id), max)

ClearAllUploads(max) ==
  /\ store.uploadedFiles # << >>
  /\ Act("clearAllUploads", clearAllUploads(store), max)

CreateChatSession(max) ==
  /\ Len(store.chatSessions) < MaxSessions
  /\ \E title \in {Null, <<"t">>}, t \in ClockReadings(acted.n) :
       Act("createChatSession",
           createChatSession(store, FreshId(acted.n), title, t[1], t[2]), max)

ImportData(documents, max) ==
  \E data \in documents : Act("importData", importData(store, data), max)

ResetStore(max) ==
  \E env \in ClientEnvs :
    /\ store # initialState(env)
    /\ Act("resetStore", resetStore(store, env), max)

NextSecrets ==
  \/ SetLLMApiKey(MaxSecretSteps)
  \/ SetLLMConfig(MaxSecretSteps)
  \/ SetSamApiKey(MaxSecretSteps)
  \/ SetEncryptionKey(MaxSecretSteps)
  \/ AddUploadedFile(MaxSecretSteps)
  \/ UpdateUploadedFile(MaxSecretSteps)
  \/ RemoveUploadedFile(MaxSecretSteps)
  \/ ClearAllUploads(MaxSecretSteps)
  \/ CreateChatSession(MaxSecretSteps)
  \/ ImportData(SecretDocuments, MaxSecretSteps)
  \/ ResetStore(MaxSecretSteps)

SpecSecrets == InitClient /\ [][NextSecrets]_vars

\* -------------------------------------- specification: the chat sessions
\* the actions of the client store on chat sessions, and imports of exported
\* data, in any order

MaxChatSteps == 3

MaxMessages == 2

MessageA == [id |-> <<"m">>, role |-> <<"user">>, content |-> <<"h", "i">>]

\* a session as exportData wrote it in an earlier run of the client
ExportedSession ==
  [id |-> <<"x">>, title |-> <<"t">>, messages |-> <<MessageA>>, createdAt |-> 0,
   updatedAt |-> 0, llmConfig |-> DEFAULT_LLM_CONFIG]

ChatDocuments ==
  { NotJSON, Document([chatSessions |-> << >>]),
    Document([chatSessions |-> <<ExportedSession>>, favorites |-> << >>]) }

SessionIds == {store.chatSessions[i].id : i \in 1..Len(store.chatSessions)}

UpdateSession(max) ==
  \E sessionId \in SessionIds, t \in ClockReadings(acted.n) :
    Act("updateSession",
        updateSession(store, sessionId, [title |-> <<"t", "2">>], t[1], t[2]), max)

DeleteSession(max) ==
  \E sessionId \in SessionIds : Act("deleteSession", deleteSession(store, sessionId), max)

AddMessageToSession(max) ==
  \E sessionId \in SessionIds, t \in ClockReadings(acted.n) :
    /\ \A i \in 1..Len(store.chatSessions) :
         Len(store.chatSessions[i].messages) < MaxMessages
    /\ Act("addMessageToSession",
           addMessageToSession(store, sessionId, MessageA, t[1], t[2]), max)

UpdateMessageInSession(max) ==
  \E sessionId \in SessionIds, t \in ClockReadings(acted.n) :
    /\ \E i \in 1..Len(store.chatSessions) :
         store.chatSessions[i].id = sessionId /\ store.chatSessions[i].messages # << >>
    /\ Act("updateMessageInSession",
           updateMessageInSession(store, sessionId, MessageA.id,
                                  [content |-> <<"y", "o">>], t[1], t[2]), max)

ClearAllSessions(max) ==
  /\ store.chatSessions # << >>
  /\ Act("clearAllSessions", clearAllSessions(store), max)

NextChat ==
  \/ CreateChatSession(MaxChatSteps)
  \/ UpdateSession(MaxChatSteps)
  \/ DeleteSession(MaxChatSteps)
  \/ AddMessageToSession(MaxChatSteps)
  \/ UpdateMessageInSession(MaxChatSteps)
  \/ ClearAllSessions(MaxChatSteps)
  \/ ImportData(ChatDocuments, MaxChatSteps)

SpecChat == InitClient /\ [][NextChat]_vars

\* -------------------------------------- specification: the working lists
\* the actions of the client store that call the server, started in any
\* order and settled in any order, each call fulfilled, answered not ok, or
\* thrown

MaxListSteps == 3

MaxPending == 2

ListId == <<"l">>

ItemId == <<"i">>

ServerList(name) == [id |-> ListId, name |-> name]

ServerItem(note) == [id |-> ItemId, listId |-> ListId, note |-> note]

SearchResult == [results |-> << [id |-> <<"r">>, score |-> 1] >>, query |-> <<"q">>]

\* what the server sends for a call that is fulfilled
ServerData(name) ==
  IF name = "performVectorSearch" THEN SearchResult
  ELSE IF name = "createWorkingList" THEN [list |-> ServerList(<<"a">>)]
  ELSE IF name = "updateWorkingList" THEN [list |-> ServerList(<<"b">>)]
  ELSE IF name = "addItemToWorkingList" THEN [item |-> ServerItem(<<"n">>)]
  ELSE IF name = "updateWorkingListItem" THEN [item |-> ServerItem(<<"n", "2">>)]
  ELSE << >>

\* the two deleting actions do not read the body of the response
ReadsBody(name) == name \notin {"deleteWorkingList", "removeItemFromWorkingList"}

Settlings(name) ==
  { Settled(TRUE, FALSE, ServerData(name)), Settled(FALSE, FALSE, << >>),
    Settled(FALSE, TRUE, << >>) }
  \cup (IF ReadsBody(name) THEN { Settled(TRUE, TRUE, << >>) } ELSE {})

ServerActions ==
  { "performVectorSearch", "createWorkingList", "updateWorkingList", "deleteWorkingList",
    "addItemToWorkingList", "updateWorkingListItem", "removeItemFromWorkingList" }

\* one step of the action `name` on the state s
Run(name, s, step) ==
  IF name = "performVectorSearch" THEN performVectorSearch(s, step)
  ELSE IF name = "createWorkingList" THEN createWorkingList(s, step)
  ELSE IF name = "updateWorkingList" THEN updateWorkingList(s, ListId, step)
  ELSE IF name = "deleteWorkingList" THEN deleteWorkingList(s, ListId, step)
  ELSE IF name = "addItemToWorkingList" THEN addItemToWorkingList(s, step)
  ELSE IF name = "updateWorkingListItem" THEN updateWorkingListItem(s, ItemId, step)
  ELSE removeItemFromWorkingList(s, ItemId, step)

\* the fields a failed call is to leave alone
Watched(s) ==
  [workingLists |-> s.workingLists, currentWorkingList |-> s.currentWorkingList,
   workingListItems |-> s.workingListItems, vectorSearchResults |-> s.vectorSearchResults]

\* the action runs to its await; clean: no other action has written the
\* watched fields since
Start(name) ==
  /\ acted.n < MaxListSteps
  /\ store' = Run(name, store, Started)
  /\ pending' = Append(pending, [name |-> name, atStart |-> Watched(store), clean |-> TRUE])
  /\ acted' = [n |-> acted.n + 1, name |-> name, phase |-> "start"]
  /\ UNCHANGED server

Settle ==
  \E i \in 1..Len(pending) :
    \E step \in Settlings(pending[i].name) :
      /\ store' = Run(pending[i].name, store, step)
      /\ pending' =
           [k \in 1..(Len(pending) - 1) |->
              [pending[IF k < i THEN k ELSE k + 1] EXCEPT
                 !.clean = @ /\ ~Fulfilled(step)]]
      /\ acted' = [n |-> acted.n, name |-> pending[i].name, phase |-> "settle",
                   failed |-> ~Fulfilled(step), thrown |-> step.thrown,
                   before |-> Watched(store), atStart |-> pending[i].atStart,
                   clean |-> pending[i].clean]
      /\ UNCHANGED server

\* setCurrentWorkingList(list), for a list of the store
SetCurrentWorkingList ==
  /\ acted.n < MaxListSteps
  /\ \E i \in 1..Len(store.workingLists) :
       /\ store.currentWorkingList # Some(store.workingLists[i])
       /\ store' = [store EXCEPT !.currentWorkingList = Some(store.workingLists[i])]
  /\ pending' = [k \in 1..Len(pending) |-> [pending[k] EXCEPT !.clean = FALSE]]
  /\ acted' = [n |-> acted.n + 1, name |-> "setCurrentWorkingList", phase |-> "start"]
  /\ UNCHANGED server

PerformVectorSearch ==
  /\ Len(pending) < MaxPending
  /\ Start("performVectorSearch")

CreateWorkingList ==
  /\ Len(pending) < MaxPending
  /\ Start("createWorkingList")

UpdateWorkingList ==
  /\ Len(pending) < MaxPending
  /\ Start("updateWorkingList")

DeleteWorkingList ==
  /\ Len(pending) < MaxPending
  /\ Start("deleteWorkingList")

AddItemToWorkingList ==
  /\ Len(pending) < MaxPending
  /\ Start("addItemToWorkingList")

UpdateWorkingListItem ==
  /\ Len(pending) < MaxPending
  /\ Start("updateWorkingListItem")

RemoveItemFromWorkingList ==
  /\ Len(pending) < MaxPending
  /\ Start("removeItemFromWorkingList")

NextLists ==
  \/ PerformVectorSearch
  \/ CreateWorkingList
  \/ UpdateWorkingList
  \/ DeleteWorkingList
  \/ AddItemToWorkingList
  \/ UpdateWorkingListItem
  \/ RemoveItemFromWorkingList
  \/ SetCurrentWorkingList
  \/ Settle

SpecLists == InitClient /\ [][NextLists]_vars

\* ------------------------------------------------------------------ claims

\* C1: for one client, among the requests that fall inside one window (started
\* by its first request, 60000 ms long) exactly the first 100 are admitted and
\* every later one is rejected; the first request after the window has elapsed
\* is admitted again.
C1_ExactlyCeilingAdmitted ==
  /\ \A ip \in DOMAIN window : window[ip].admitted <= SAM_RATE_LIMIT_MAX_REQUESTS
  /\ rl.called =>
       /\ (rl.inside /\ rl.before < SAM_RATE_LIMIT_MAX_REQUESTS) => rl.allowed
       /\ (rl.inside /\ rl.before >= SAM_RATE_LIMIT_MAX_REQUESTS) => ~rl.allowed
       /\ ~rl.inside => rl.allowed

\* the 101st request of a window has been rejected, and a request after the
\* window has been admitted again
C1_Witness ==
  /\ rl.called /\ rl.ip = ipA /\ rl.allowed /\ ~rl.inside
  /\ window[ipA].afterRejection
  /\ window[ipA].start = now

\* s contains the string sub
Contains(s, sub) ==
  \E i \in 1..(Len(s) - Len(sub) + 1) : SubSeq(s, i, i + Len(sub) - 1) = sub

Success == Responded /\ resp.status = 200

ServedFromCache == Success /\ "cached" \in DOMAIN resp.body

\* C2: a request the rate limiter rejects is answered 429 at once: no upstream
\* registry call, no embedding call, no vector-store push, and no read or
\* write of the response caches or of the embedding cache.
C2_RejectionTouchesNothing ==
  (Responded /\ rl.called /\ ~rl.allowed) =>
    /\ resp.status = 429
    /\ resp.trace.upstream = 0 /\ resp.trace.embedNet = 0 /\ resp.trace.vectorPush = 0
    /\ ~resp.trace.srcRead /\ ~resp.trace.redisRead /\ ~resp.trace.ranker
    /\ ~resp.changed.src /\ ~resp.changed.redis /\ ~resp.changed.emb /\ ~resp.changed.vs

\* a request that would have searched (credential present, no live page in the
\* search results cache) was rejected
C2_Witness ==
  /\ Responded /\ resp.status = 429
  /\ Truthy(resp.req.samApiKey)
  /\ searchResultsCache = EmptyMap
  /\ window[ipA].admitted = SAM_RATE_LIMIT_MAX_REQUESTS

\* C3 (as claimed): of the requests with the same filters, one that arrives
\* within the TTL (30 minutes) of the last upstream fetch of those filters
\* issues no upstream call, and one that arrives after the TTL has expired
\* issues an upstream call.
C3_OneFetchPerTTL ==
  (Responded /\ resp.status \in {200, 500} /\ resp.sinceFetch >= 0) =>
    /\ resp.sinceFetch < SamSearchTTL => resp.trace.upstream = 0
    /\ resp.sinceFetch >= SamSearchTTL => resp.trace.upstream = 1

\* C4: when the upstream call fails, the response is a failure carrying the
\* upstream status and message, both response caches are as they were before
\* the request, and the same request sent again calls upstream again.
C4_FailureNotCached ==
  /\ (Responded /\ resp.status = 500) =>
       /\ resp.trace.upstream = 1 /\ ~resp.answer.ok
       /\ Contains(resp.body.error, NatToString(resp.answer.status))
       /\ Contains(resp.body.error, resp.answer.errorMessage)
       /\ ~resp.changed.src /\ ~resp.changed.redis
       /\ ~SrcLive(searchResultsCache, resp.key, now)
       /\ ~RedisLive(redisCache, generateCacheKey(resp.key, "sam-search"), SamSearchTTL, now)
  /\ (Responded /\ resp.afterFailure) => resp.trace.upstream = 1

\* a failed request was sent again and answered from upstream
C4_Witness ==
  /\ Success /\ resp.afterFailure /\ resp.trace.upstream = 1

\* C5: a request is answered from a search results cache entry only while
\* now - timestamp < CACHE_DURATION, swept or not; an answer from the cache is
\* the stored payload and is given without an upstream fetch.
C5_OnlyLiveEntriesServed ==
  ServedFromCache =>
    /\ 0 <= resp.entryAge /\ resp.entryAge < CACHE_DURATION
    /\ resp.body.data = resp.entryData
    /\ resp.trace.upstream = 0 /\ ~resp.changed.src /\ ~resp.changed.redis

\* an entry exactly CACHE_DURATION old, which the sweep leaves in the map, was
\* not served
C5_Witness ==
  /\ Success /\ ~ServedFromCache
  /\ resp.entryAge = CACHE_DURATION
  /\ ~SweepExpired(resp.t, resp.t - resp.entryAge)

\* the integer a parameter spells, << >> when it spells none
IsIntegerLiteral(s) ==
  /\ Truthy(s)
  /\ LET body == IF Head(s) = "-" THEN Tail(s) ELSE s
     IN body # << >> /\ AllDigits(body)

IntegerOf(s) ==
  IF Head(s) = "-" THEN 0 - DigitsValue(Tail(s)) ELSE DigitsValue(s)

\* C6 (as claimed): a successful request with a limit above 100 echoes the
\* limit 100 in the response data.
C6_EchoedLimitClamped ==
  (Success /\ IsIntegerLiteral(resp.req.limit) /\ IntegerOf(resp.req.limit) > 100) =>
    resp.body.data.limit = Num(UPSTREAM_MAX_LIMIT)

Min(a, b) == IF a <= b THEN a ELSE b

UpstreamCalled == Responded /\ resp.trace.upstream = 1

\* C7 (as claimed): the limit sent upstream is min(requested limit, or 50 when
\* none is requested, 100) and the offset sent is the requested offset, or 0
\* when none is requested.
C7_ClampAsClaimed ==
  UpstreamCalled =>
    /\ IsIntegerLiteral(resp.req.limit) =>
         ParamValue(resp.params, "limit")
           = NumToString(Num(Min(IntegerOf(resp.req.limit), UPSTREAM_MAX_LIMIT)))
    /\ ~Truthy(resp.req.limit) =>
         ParamValue(resp.params, "limit") = NumToString(Num(DEFAULT_LIMIT))
    /\ IsIntegerLiteral(resp.req.offset) =>
         ParamValue(resp.params, "offset") = NumToString(Num(IntegerOf(resp.req.offset)))
    /\ ~Truthy(resp.req.offset) =>
         ParamValue(resp.params, "offset") = NumToString(Num(0))

NoLeadingInteger(s) == Truthy(s) /\ parseInt(s) = NaN

\* C7 (amended): the limit sent upstream is min(requested limit, 100) when a
\* limit other than 0 is requested, and 50 when the limit is absent, 0 or not
\* a number; the offset sent is the requested offset, and 0 when it is absent
\* or not a number.
C7_ClampAmended ==
  UpstreamCalled =>
    /\ (IsIntegerLiteral(resp.req.limit) /\ IntegerOf(resp.req.limit) # 0) =>
         ParamValue(resp.params, "limit")
           = NumToString(Num(Min(IntegerOf(resp.req.limit), UPSTREAM_MAX_LIMIT)))
    /\ (~Truthy(resp.req.limit) \/ NoLeadingInteger(resp.req.limit)
          \/ (IsIntegerLiteral(resp.req.limit) /\ IntegerOf(resp.req.limit) = 0)) =>
         ParamValue(resp.params, "limit") = NumToString(Num(DEFAULT_LIMIT))
    /\ IsIntegerLiteral(resp.req.offset) =>
         ParamValue(resp.params, "offset") = NumToString(Num(IntegerOf(resp.req.offset)))
    /\ (~Truthy(resp.req.offset) \/ NoLeadingInteger(resp.req.offset)) =>
         ParamValue(resp.params, "offset") = NumToString(Num(0))

\* a limit above the maximum was clamped on the way upstream, with a requested
\* offset passed through
C7_Witness ==
  /\ UpstreamCalled
  /\ resp.req.limit = <<"2", "0", "0">> /\ resp.req.offset = <<"3">>
  /\ ParamValue(resp.params, "limit") = <<"1", "0", "0">>
  /\ ParamValue(resp.params, "offset") = <<"3">>

\* C8 (as claimed): of two calls of generateEmbeddings with the same
\* (provider, text), the second makes no provider call and returns the vector
\* the first returned.
C8_CalledOnce ==
  (embedded.called /\ embedded.known) =>
    /\ embedded.ok /\ embedded.net = 0
    /\ embedded.value = embedded.prior

\* C8 (amended): a call of generateEmbeddings for a (provider, text) for which
\* an earlier call returned a vector, whose entry the cleanup has not evicted
\* since, makes no provider call and returns the same vector.
C8_CalledOnceUnlessEvicted ==
  (embedded.called /\ embedded.known /\ ~embedded.evicted) =>
    /\ embedded.ok /\ embedded.net = 0
    /\ embedded.value = embedded.prior

\* a repeated call was answered from the cache after a trim that kept its entry
C8_Witness ==
  /\ embedded.called /\ embedded.known /\ ~embedded.evicted
  /\ embedded.net = 0 /\ embedded.value = <<3, 4>>
  /\ Len(embeddingCache) = EMBEDDING_CACHE_KEEP

\* the place of a ranked opportunity in the list that was given to the ranker
InputPlace(o) == CHOOSE k \in 1..Len(ranking.input) : ranking.input[k].id = o.id

Ranked == ranking.called /\ ranking.ranked

\* C9: when reranking succeeds, the output is ordered by relevanceScore
\* descending, and candidates with equal relevanceScore keep the relative
\* order they had in the input.
C9_SortedStable ==
  Ranked =>
    /\ \A i \in 1..Len(ranking.result) :
         \E k \in 1..Len(ranking.input) : ranking.input[k].id = ranking.result[i].id
    /\ \A i, j \in 1..Len(ranking.result) :
         i < j =>
           /\ ranking.result[i].relevanceScore >= ranking.result[j].relevanceScore
           /\ ranking.result[i].relevanceScore = ranking.result[j].relevanceScore
                => InputPlace(ranking.result[i]) < InputPlace(ranking.result[j])

\* a ranking that moved candidates and kept ties
C9_Witness ==
  /\ Ranked
  /\ \E i, j \in 1..Len(ranking.result) :
       /\ i < j
       /\ ranking.result[i].relevanceScore = ranking.result[j].relevanceScore
  /\ \E i, j \in 1..Len(ranking.result) :
       /\ i < j
       /\ InputPlace(ranking.result[i]) > InputPlace(ranking.result[j])

\* C10 (as claimed): whatever the candidate list and the outcome of the
\* embedding calls, performSemanticSearch returns at most TOP_N opportunities.
C10_AtMostTopN ==
  ranking.called => Len(ranking.result) <= TOP_N

\* C10 (amended): when reranking succeeds, performSemanticSearch returns
\* min(number of candidates, TOP_N) opportunities; when the query is blank or
\* an embedding call fails, it returns the whole candidate list, of any
\* length.
C10_AtMostTopNWhenRanked ==
  ranking.called =>
    /\ ranking.ranked => Len(ranking.result) = Min(Len(ranking.input), TOP_N)
    /\ ~ranking.ranked => ranking.result = ranking.input

\* a ranking that cut a longer list down to TOP_N
C10_Witness ==
  /\ Ranked
  /\ Len(ranking.input) > TOP_N
  /\ Len(ranking.result) = TOP_N

Blank(query) == \A i \in 1..Len(query) : query[i] = " "

\* C11: for an empty or whitespace-only query the ranker returns the
\* candidates as given, in order and with every relevanceScore as it was, and
\* makes no embedding call and no change to the embedding cache.
C11_BlankQueryNoOp ==
  (ranking.called /\ Blank(ranking.query)) =>
    /\ ranking.result = ranking.input
    /\ ranking.net = 0
    /\ ~ranking.cacheChanged
    /\ ~ranking.ranked

\* a whitespace query over more than TOP_N candidates of mixed texts
C11_Witness ==
  /\ ranking.called /\ ranking.query = <<" ">>
  /\ Len(ranking.input) > TOP_N
  /\ \E i, j \in 1..Len(ranking.input) : ranking.input[i].title # ranking.input[j].title
  /\ ranking.result = ranking.input

\* C12: if an embedding call fails, for the query or for any one candidate,
\* the ranker returns the candidate list it was given, in order and with the
\* relevanceScore each candidate had.
C12_FailureReturnsInput ==
  (ranking.called /\ ~Blank(ranking.query) /\ ranking.failed) =>
    /\ ranking.result = ranking.input
    /\ ~ranking.ranked

\* the call for the last of more than TOP_N candidates failed after others
\* had been answered by the provider
C12_Witness ==
  /\ ranking.called /\ ranking.failed /\ ranking.failing = "last"
  /\ Len(ranking.input) > TOP_N
  /\ ranking.net > 2
  /\ ranking.result = ranking.input

\* C13: whenever the upstream fetch of a request succeeds, the request is
\* answered 200 with a success body, whatever the embedding calls do.
C13_EmbeddingErrorNotSurfaced ==
  (UpstreamCalled /\ resp.answer.ok) =>
    /\ resp.status = 200
    /\ resp.body.success
    /\ "error" \notin DOMAIN resp.body

\* the ranker was called with a provider generateEmbeddings does not support,
\* fell back, and the response is a success in upstream order
C13_Witness ==
  /\ UpstreamCalled /\ Success
  /\ resp.req.provider = <<"x">>
  /\ resp.trace.ranker /\ ~resp.trace.ranked
  /\ resp.body.data.opportunities = Transform(resp.answer.listings)

\* a request that supplies a semantic query
Semantic(req) ==
  /\ req.semantic = TrueString
  /\ Truthy(req.q)
  /\ req.authorization = Token

Descending(list) ==
  \A i, j \in 1..Len(list) : i < j => list[i].relevanceScore >= list[j].relevanceScore

\* C14 (as claimed): every success response to a request that supplies a
\* semantic query, whose embedding calls succeed, carries opportunities
\* scored by similarity and ordered by score, whatever requests came before.
C14_SemanticAlwaysRanked ==
  (Success /\ Semantic(resp.req) /\ resp.req.provider = Null /\ resp.failing = {}) =>
    /\ Descending(resp.body.data.opportunities)
    /\ \E i \in 1..Len(resp.body.data.opportunities) :
         resp.body.data.opportunities[i].relevanceScore # 0

\* C15: a request the rate limiter admits that carries no SAM API key is
\* answered 400 before any I/O: no upstream call, no embedding call, no
\* vector-store push, no read or write of the response caches.
C15_KeylessTouchesNothing ==
  (Responded /\ rl.called /\ rl.allowed /\ ~Truthy(resp.req.samApiKey)) =>
    /\ resp.status = 400
    /\ resp.trace.upstream = 0 /\ resp.trace.embedNet = 0 /\ resp.trace.vectorPush = 0
    /\ ~resp.trace.srcRead /\ ~resp.trace.redisRead /\ ~resp.trace.ranker
    /\ ~resp.changed.src /\ ~resp.changed.redis /\ ~resp.changed.emb /\ ~resp.changed.vs

\* a request without a key was answered 400 while the search results cache
\* held a live page for its filters, which a cache read would have served
C15_Witness ==
  /\ Responded /\ resp.status = 400
  /\ resp.req.samApiKey = Null
  /\ SrcLive(searchResultsCache, JSONStringifyFilters(BuildFilters(resp.req, now)), now)

\* C16 (as claimed): every error response, whether 429, 400 or 500, has the
\* same shape: an error message together with a timestamp.
C16_ErrorsHaveOneShape ==
  (Responded /\ resp.status \in {429, 400, 500}) =>
    DOMAIN resp.body = {"error", "timestamp"}

\* C17: a request issues at most one upstream call; when that call fails the
\* request is answered 500 with no opportunities, and no vector push, no
\* ranking and no store in a response cache follows.
C17_UpstreamFailureAborts ==
  /\ Responded => resp.trace.upstream <= 1
  /\ (UpstreamCalled /\ ~resp.answer.ok) =>
       /\ resp.status = 500
       /\ DOMAIN resp.body = {"error", "timestamp"}
       /\ resp.trace.vectorPush = 0
       /\ ~resp.trace.ranker /\ resp.trace.embedNet = 0
       /\ ~resp.changed.src /\ ~resp.changed.redis
       /\ ~resp.changed.emb /\ ~resp.changed.vs

\* the upstream call of a request failed whose ranking was wanted and whose
\* embedding calls and vector push would have succeeded
C17_Witness ==
  /\ UpstreamCalled /\ ~resp.answer.ok /\ resp.status = 500
  /\ Semantic(resp.req)
  /\ resp.failing = {} /\ resp.vsFailing = {}

\* the request got a page from upstream or from the redis cache, which it
\* pushed to the vector store, and the push of one of its opportunities failed
PushFailed ==
  /\ Responded
  /\ resp.indexed.status = 200 /\ "cached" \notin DOMAIN resp.indexed.body
  /\ resp.vsFailing \cap Ids(resp.indexed.body.data.opportunities) # {}

\* C18: a request whose vector-store push fails is answered as it would be if
\* the push had succeeded: status 200 and the same body, with the ranking
\* applied when it is wanted.
C18_PushFailureHarmless ==
  PushFailed =>
    /\ resp.status = 200
    /\ resp.status = resp.indexed.status
    /\ resp.body = resp.indexed.body
    /\ WantsRanking(resp.req) => resp.trace.ranker
    /\ (WantsRanking(resp.req) /\ resp.req.provider = Null /\ resp.failing = {})
         => resp.trace.ranked

\* the push of listing A failed and the response is the ranked page, B before A
C18_Witness ==
  /\ PushFailed /\ Success
  /\ resp.trace.ranked
  /\ resp.body.data.opportunities[1].id = ListingB.noticeId
  /\ ListingA.noticeId \notin vectorStore
  /\ ListingB.noticeId \in vectorStore

\* the day a date string in MM/DD/YYYY names
SAMDateDays(s) ==
  DaysFromCivil(DigitsValue(Split(s, "/")[3]), DigitsValue(Split(s, "/")[1]),
                DigitsValue(Split(s, "/")[2]))

\* two digits, two digits, four digits
PaddedSAMDate(s) ==
  /\ IsSAMDate(s)
  /\ Len(Split(s, "/")[1]) = 2 /\ Len(Split(s, "/")[2]) = 2

NoDates(k) == k.req.startDate = Null /\ k.req.endDate = Null

\* C19: the filters of a request with no start date and no end date have, as
\* MM/DD/YYYY, endDate the day of the request and startDate the day thirty
\* days before it; two such requests on different days have different dates
\* and different cache keys.
C19_DefaultWindow ==
  (keyed.made /\ NoDates(keyed.last)) =>
    /\ PaddedSAMDate(keyed.last.filters.startDate)
    /\ PaddedSAMDate(keyed.last.filters.endDate)
    /\ SAMDateDays(keyed.last.filters.endDate) = keyed.last.day
    /\ SAMDateDays(keyed.last.filters.startDate) = keyed.last.day - 30
    /\ \A i \in 1..Len(keyed.prev) :
         (NoDates(keyed.prev[i]) /\ keyed.prev[i].day # keyed.last.day) =>
           /\ keyed.prev[i].filters.startDate # keyed.last.filters.startDate
           /\ keyed.prev[i].filters.endDate # keyed.last.filters.endDate
           /\ keyed.prev[i].key # keyed.last.key
           /\ keyed.prev[i].redisKey # keyed.last.redisKey

\* the same query on 2024-03-01 and on 2024-03-30, whose window starts on the
\* leap day
C19_Witness ==
  /\ keyed.made /\ NoDates(keyed.last)
  /\ keyed.prev # << >>
  /\ keyed.prev[1].params = keyed.last.params
  /\ keyed.prev[1].day = 19783 /\ keyed.last.day = 19812
  /\ keyed.last.filters.startDate =
       <<"0", "2", "/", "2", "9", "/", "2", "0", "2", "4">>

\* the same parameters, in whatever order
SameRaw(p, q) == {p[i] : i \in 1..Len(p)} = {q[i] : i \in 1..Len(q)}

\* C20 (as claimed): two requests get the same response-cache key if their
\* raw filter sets are identical, in any parameter order, and different keys
\* if the raw filter sets differ in any field.
C20_KeyIffRawFilters ==
  keyed.made =>
    \A i \in 1..Len(keyed.prev) :
      SameRaw(keyed.prev[i].params, keyed.last.params)
        <=> keyed.prev[i].key = keyed.last.key

\* C20 (amended): two requests made on the same day with the same raw filter
\* set, in any parameter order, get the same cache keys; and two requests get
\* the same cache keys exactly when their normalised filters are equal, so raw
\* sets that normalisation maps to the same filters share a key.
C20_KeyIffCanonicalFilters ==
  keyed.made =>
    \A i \in 1..Len(keyed.prev) :
      /\ (/\ SameRaw(keyed.prev[i].params, keyed.last.params)
          /\ keyed.prev[i].day = keyed.last.day)
           => /\ keyed.prev[i].key = keyed.last.key
              /\ keyed.prev[i].redisKey = keyed.last.redisKey
      /\ keyed.prev[i].key = keyed.last.key
           <=> keyed.prev[i].filters = keyed.last.filters
      /\ keyed.prev[i].redisKey = keyed.last.redisKey
           <=> keyed.prev[i].filters = keyed.last.filters

\* the same two parameters in the two orders, on one day, with one key
C20_Witness ==
  /\ keyed.made /\ keyed.prev # << >>
  /\ Len(keyed.last.params) = 2
  /\ keyed.prev[1].params = <<keyed.last.params[2], keyed.last.params[1]>>
  /\ keyed.prev[1].day = keyed.last.day
  /\ keyed.prev[1].key = keyed.last.key

\* the optional filter fields: upstream parameter, request parameter
OptionalFields ==
  { <<"q", "q">>, <<"naicsCode", "naicsCode">>, <<"state", "state">>,
    <<"agency", "agency">>, <<"noticeType", "type">>, <<"setAside", "setAside">>,
    <<"active", "active">>, <<"entityName", "entityName">>,
    <<"contractVehicle", "contractVehicle">>,
    <<"classificationCode", "classificationCode">>,
    <<"fundingSource", "fundingSource">>,
    <<"responseDeadlineFrom", "responseDeadlineFrom">>,
    <<"responseDeadlineTo", "responseDeadlineTo">>,
    <<"estimatedValueMin", "estimatedValueMin">>,
    <<"estimatedValueMax", "estimatedValueMax">>,
    <<"hasAttachments", "hasAttachments">> }

\* C21 (as claimed): the upstream call of a request carries the parameter of an
\* optional filter field only if the request supplied that field.
C21_OnlySuppliedFieldsSent ==
  UpstreamCalled =>
    \A field \in OptionalFields :
      ParamValue(resp.params, field[1]) # Null => resp.req[field[2]] # Null

\* the call named one of the two providers
NamedProvider == embedded.provider \in {openai, huggingface}

\* C22: a generateEmbeddings call that misses the cache fails, for a provider
\* name that is not supported, with the unsupported-provider error and no
\* provider call, and, for a provider that answers with a non-success
\* response, with an error after one provider call; neither changes the
\* embedding cache, and the next call for the same (provider, text) finds no
\* entry and calls the provider again.
C22_FailureCachesNothing ==
  /\ (embedded.called /\ ~embedded.cached) =>
       /\ ~NamedProvider =>
            /\ ~embedded.ok /\ embedded.unsupported
            /\ embedded.net = 0 /\ ~embedded.cacheChanged
       /\ (NamedProvider /\ embedded.fails) =>
            /\ ~embedded.ok /\ ~embedded.unsupported
            /\ embedded.net = 1 /\ ~embedded.cacheChanged
       /\ embedded.ok => (embedded.net = 1 /\ embedded.cacheChanged)
  /\ (embedded.called /\ embedded.afterFailure) =>
       /\ ~embedded.cached
       /\ NamedProvider => embedded.net = 1

\* a call that failed at the provider was repeated, reached the provider again
\* and returned a vector
C22_Witness ==
  /\ embedded.called /\ embedded.afterFailure
  /\ embedded.ok /\ embedded.net = 1
  /\ CacheHas(embeddingCache, embedded.key)

\* one step, as it changes the rate window of the client ip
RateWindowStep(ip) ==
  IF ip \in DOMAIN samRateLimitMap /\ samRateLimitMap'[ip] = samRateLimitMap[ip]
    THEN TRUE
    ELSE /\ rl'.called /\ rl'.allowed /\ rl'.ip = ip
         /\ IF ip \notin DOMAIN samRateLimitMap
              THEN samRateLimitMap'[ip] = [count |-> 1, timestamp |-> now]
            ELSE IF now - samRateLimitMap[ip].timestamp > SAM_RATE_LIMIT_WINDOW
              THEN samRateLimitMap'[ip] = [count |-> 1, timestamp |-> now]
            ELSE samRateLimitMap'[ip] =
                   [count |-> samRateLimitMap[ip].count + 1,
                    timestamp |-> samRateLimitMap[ip].timestamp]

\* C23: every client's count stays between 1 and the ceiling; a step changes a
\* client's window only by admitting a request of that client, which adds
\* exactly 1 to the count within the window and sets count to 1 and the window
\* start to now when more than the window length has passed since the start;
\* a rejected request changes no window, and is rejected only within the
\* window.  (A step that leaves the clock alone is a request.)
C23_RateWindow ==
  [][ /\ DOMAIN samRateLimitMap \subseteq DOMAIN samRateLimitMap'
      /\ \A ip \in DOMAIN samRateLimitMap' :
           /\ samRateLimitMap'[ip].count \in 1..SAM_RATE_LIMIT_MAX_REQUESTS
           /\ RateWindowStep(ip)
      /\ (now' = now /\ rl'.called /\ ~rl'.allowed) =>
           /\ samRateLimitMap' = samRateLimitMap
           /\ now - samRateLimitMap[rl'.ip].timestamp <= SAM_RATE_LIMIT_WINDOW
           /\ samRateLimitMap[rl'.ip].count = SAM_RATE_LIMIT_MAX_REQUESTS ]_vars

\* a client at the ceiling was rejected, and its count is 1 again with the
\* window started now, after the window elapsed
C23_Witness ==
  /\ ipA \in DOMAIN samRateLimitMap
  /\ samRateLimitMap[ipA] = [count |-> 1, timestamp |-> now]
  /\ now = SAM_RATE_LIMIT_WINDOW + 1
  /\ ipA \in DOMAIN window /\ window[ipA].afterRejection

\* C24: a client's window start is the time of the request that opened its
\* window: no request inside the window, admitted or rejected, moves it; and a
\* request made more than the window length after the start is admitted,
\* also when requests of the window before were rejected.
C24_RejectionRecoverable ==
  /\ \A ip \in DOMAIN window :
       /\ ip \in DOMAIN samRateLimitMap
       /\ samRateLimitMap[ip].timestamp = window[ip].start
  /\ \A ip \in DOMAIN window :
       window[ip].afterRejection => window[ip].admitted >= 1
  /\ (rl.called /\ ~rl.allowed) =>
       /\ rl.inside
       /\ window[rl.ip].rejected = 1

\* a client rejected at the ceiling sent its next request 60001 ms after the
\* window start and was admitted into a new window
C24_Witness ==
  /\ rl.called /\ rl.allowed /\ ~rl.inside
  /\ rl.ip \in DOMAIN window
  /\ window[rl.ip].afterRejection
  /\ window[rl.ip].start = SAM_RATE_LIMIT_WINDOW + 1
  /\ window[rl.ip].admitted = 1 /\ window[rl.ip].rejected = 0

\* the identity of the last caller of the limiter, read from its headers:
\* x-forwarded-for, else x-real-ip, else none
Identity ==
  IF rl.xff # Null /\ rl.xff # << >> THEN <<rl.xff>>
  ELSE IF rl.xreal # Null /\ rl.xreal # << >> THEN <<rl.xreal>>
  ELSE << >>

\* the key of the rate window of an identity; the fallback for none
WindowKey(identity) == IF identity = << >> THEN unknown ELSE identity[1]

\* C25: a step changes the rate window of no client but the one whose request
\* it handles, the window of a request without x-forwarded-for and x-real-ip
\* being the one fallback window; a client that sends fewer requests than the
\* ceiling is never rejected, whatever the other clients have sent.
C25_WindowsPerIdentity ==
  [][ /\ \A ip \in DOMAIN samRateLimitMap' :
           (ip \notin DOMAIN samRateLimitMap \/ samRateLimitMap'[ip] # samRateLimitMap[ip])
             => (rl'.called /\ ip = WindowKey(Identity'))
      /\ (rl'.called /\ WindowKey(Identity') # ipA) => rl'.allowed ]_vars

\* the client A has exhausted its quota and been rejected; two requests
\* without identity have shared the fallback window; the client B is admitted
C25_Witness ==
  /\ rl.called /\ rl.allowed /\ rl.xff = Null /\ rl.xreal = ipB
  /\ DOMAIN samRateLimitMap = {ipA, ipB, unknown}
  /\ samRateLimitMap[ipA].count = SAM_RATE_LIMIT_MAX_REQUESTS
  /\ window[ipA].rejected = 1
  /\ samRateLimitMap[unknown].count = 2
  /\ samRateLimitMap[ipB].count = 1

\* C26: while the handlers of other requests are suspended and resumed in any
\* order, the requests admitted for a client within one window never exceed
\* the ceiling, and the client's count is the number of requests admitted in
\* its window: no increment is lost.
C26_LimiterAtomic ==
  /\ DOMAIN window = DOMAIN samRateLimitMap
  /\ \A ip \in DOMAIN window :
       /\ window[ip].admitted <= SAM_RATE_LIMIT_MAX_REQUESTS
       /\ samRateLimitMap[ip].count = window[ip].admitted
       /\ samRateLimitMap[ip].timestamp = window[ip].start
  /\ Len(inflight) <= SAM_RATE_LIMIT_MAX_REQUESTS

\* the client reached the ceiling and was rejected while the handlers of two
\* of its admitted requests were suspended at their fetch
C26_Witness ==
  /\ Len(inflight) = MaxInflight
  /\ rl.called /\ ~rl.allowed
  /\ samRateLimitMap[ipA].count = SAM_RATE_LIMIT_MAX_REQUESTS
  /\ window[ipA].rejected = 1

\* the age of the entry of key k of the search results cache
Age(k) == now - searchResultsCache[k].timestamp

\* C27: the sweep, run in any reachable state, leaves in searchResultsCache
\* no entry older than CACHE_DURATION, leaves the entries it keeps as they
\* were, and removes only entries older than CACHE_DURATION, none of which a
\* request arriving at the same instant would be served (age < CACHE_DURATION).
C27_SweepExact ==
  \A k \in DOMAIN searchResultsCache :
    IF k \in DOMAIN SweepSearchResults(searchResultsCache, now)
      THEN /\ Age(k) <= CACHE_DURATION
           /\ SweepSearchResults(searchResultsCache, now)[k] = searchResultsCache[k]
      ELSE /\ Age(k) > CACHE_DURATION
           /\ ~(Age(k) < CACHE_DURATION)

\* a sweep has removed the page of one key, fetched more than CACHE_DURATION
\* ago, and has kept the page of another that is exactly CACHE_DURATION old
C27_Witness ==
  /\ \E k \in DOMAIN fetched :
       /\ k \notin DOMAIN searchResultsCache
       /\ now - fetched[k] > CACHE_DURATION
  /\ \E k \in DOMAIN searchResultsCache : Age(k) = CACHE_DURATION

\* the newest n entries of the cache, in insertion order
Newest(cache, n) == SubSeq(cache, Len(cache) - n + 1, Len(cache))

\* C28 (as claimed): the trim of an embedding cache of more than 1000 entries
\* evicts the oldest half of the entries and retains the newer half in
\* insertion order (the half rounded either way).
C28_TrimKeepsNewerHalf ==
  Len(embeddingCache) > 1000 =>
    \/ TrimEmbeddingCache(embeddingCache)
         = Newest(embeddingCache, Len(embeddingCache) \div 2)
    \/ TrimEmbeddingCache(embeddingCache)
         = Newest(embeddingCache, Len(embeddingCache) - Len(embeddingCache) \div 2)

\* C28 (amended): the trim of an embedding cache of more than 1000 entries
\* retains the 500 newest entries in insertion order and evicts every older
\* entry, whatever the size; a cache of at most 1000 entries is left as it is.
C28_TrimKeepsNewest500 ==
  IF Len(embeddingCache) > 1000
    THEN TrimEmbeddingCache(embeddingCache) = Newest(embeddingCache, 500)
    ELSE TrimEmbeddingCache(embeddingCache) = embeddingCache

\* the cache just after a trim: 500 entries, the key embedded first evicted
C28_Witness ==
  /\ Len(embeddingCache) = 500
  /\ \E k \in DOMAIN memo : memo[k].evicted /\ ~CacheHas(embeddingCache, k)
  /\ PagesRanked = MaxEmbedPages

\* the texts a ranking call asks a vector for: the query and every candidate
RankedTexts ==
  {ranking.query} \cup {OpportunityText(ranking.input[i]) : i \in 1..Len(ranking.input)}

\* C29: a ranking whose candidates repeat a (provider, text) key calls the
\* provider at most once for each key: the provider calls of one ranking are
\* no more than the distinct texts it embeds.
C29_FillOnceUnderFanOut ==
  ranking.called /\ ~BlankQuery(ranking.query) =>
    ranking.net <= Cardinality(RankedTexts)

\* the score of a candidate once the query's and its own embedding call have
\* completed
FullScore(o) ==
  cosineSimilarity(ModelVector(providerModel, ranking.query),
                   ModelVector(providerModel, OpportunityText(o)))

\* the list holds every candidate's completed score and is ordered on them:
\* the first min(n, TOP_N) of all the scored candidates
FullyRanked(list) ==
  /\ Len(list) = Min(Len(ranking.input), TOP_N)
  /\ \A i \in 1..Len(list) :
       /\ list[i] = [ranking.input[InputPlace(list[i])] EXCEPT
                       !.relevanceScore = FullScore(list[i])]
       /\ \A j \in 1..Len(list) : i < j => FullScore(list[i]) >= FullScore(list[j])
       /\ \A k \in 1..Len(ranking.input) :
            (\A j \in 1..Len(list) : list[j].id # ranking.input[k].id)
              => FullScore(ranking.input[k]) <= FullScore(list[i])

\* C30: the ranker returns either the list it was given, untouched, or the
\* list of all candidates scored, sorted and cut to TOP_N; it returns the
\* second only when every embedding call completed, so no result mixes scored
\* and unscored candidates or is ordered on a part of the scores.
C30_RankingAllOrNothing ==
  ranking.called =>
    /\ ranking.result = ranking.input \/ FullyRanked(ranking.result)
    /\ ranking.failed => ranking.result = ranking.input
    /\ ranking.result # ranking.input => ~ranking.failed /\ ranking.ranked

\* the call for the last candidate failed after the others had stored their
\* vectors, on a list the completed scores would have reordered
C30_Witness ==
  /\ ranking.called /\ ranking.failing = "last" /\ ranking.failed
  /\ ranking.cacheChanged
  /\ \E i, j \in 1..Len(ranking.input) :
       i < j /\ FullScore(ranking.input[i]) < FullScore(ranking.input[j])
  /\ ranking.result = ranking.input

\* the page as searchSAMOpportunities returns it: the listings in upstream
\* order, each with relevanceScore 0
UpstreamOrder(listings) == [i \in 1..Len(listings) |-> TransformListing(listings[i])]

\* C31: a success response to a request that supplies no semantic query
\* (no semantic flag, or no embedding credential) carries the opportunities in
\* upstream order with relevanceScore 0 on each, whatever requests came before.
C31_ScoreOnlyFromRanker ==
  (Success /\ ~Semantic(resp.req)) =>
    resp.body.data.opportunities = UpstreamOrder(<<ListingA, ListingB>>)

\* C32: the ranker works on copies: the page searchSAMOpportunities fetched,
\* as the fetch-level cache holds it, stays in upstream order with
\* relevanceScore 0 on every opportunity, after any number of rankings of it.
C32_RankerLeavesInputAlone ==
  \A k \in DOMAIN redisCache :
    redisCache[k].payload = UpstreamOrder(<<ListingA, ListingB>>)

\* a ranking moved B before A in the response while the fetch-level cache
\* holds the page it ranked
C32_Witness ==
  /\ Success /\ resp.trace.ranked
  /\ resp.body.data.opportunities[1].id = ListingB.noticeId
  /\ resp.body.data.opportunities[1].relevanceScore > 0
  /\ \E k \in DOMAIN redisCache : Len(redisCache[k].payload) = 2

\* the page searchSAMOpportunities returned for the filters of the response,
\* as the fetch-level cache holds it
FetchedPage ==
  redisCache[generateCacheKey(JSONStringifyFilters(resp.filters), "sam-search")].payload

\* C33: in every success response totalRecords is the number of opportunities
\* of the fetched page, before ranking; the opportunities returned are no
\* more, and as many unless the ranking cut the list to TOP_N.
C33_TotalRecordsIsPageSize ==
  Success =>
    /\ resp.body.data.totalRecords = Len(FetchedPage)
    /\ resp.trace.upstream = 1 =>
         resp.body.data.totalRecords = Len(resp.answer.listings)
    /\ Len(resp.body.data.opportunities) <= resp.body.data.totalRecords
    /\ Len(resp.body.data.opportunities) < resp.body.data.totalRecords =>
         /\ Len(resp.body.data.opportunities) = 25
         /\ Semantic(resp.req) \/ ServedFromCache

\* a page of more than TOP_N opportunities was fetched and ranked: 25 are
\* returned and totalRecords is 26
C33_Witness ==
  /\ Success /\ resp.trace.upstream = 1 /\ resp.trace.ranked
  /\ Len(resp.answer.listings) = 26
  /\ Len(resp.body.data.opportunities) = 25
  /\ resp.body.data.totalRecords = 26

\* C34: every success response carries the boolean field cached, TRUE when
\* no upstream registry call was made for the request and FALSE when one was.
C34_CachedFlagAlwaysPresent ==
  Success =>
    /\ "cached" \in DOMAIN resp.body
    /\ resp.body.cached = (resp.trace.upstream = 0)

\* the filter field and the upstream parameter of each date input
DateField(f, name) ==
  IF name = "startDate" THEN f.startDate
  ELSE IF name = "endDate" THEN f.endDate
  ELSE IF name = "responseDeadlineFrom" THEN f.responseDeadline.from
  ELSE f.responseDeadline.to

DateParam(name) ==
  IF name = "startDate" THEN "postedFrom"
  ELSE IF name = "endDate" THEN "postedTo"
  ELSE name

\* C35 (as claimed): a date input that cannot be parsed leaves its field absent
\* from the filters and its parameter absent from the upstream request, for
\* each of startDate, endDate, responseDeadlineFrom and responseDeadlineTo.
C35_UnparsableDateAbsent ==
  keyed.made =>
    \A name \in DateInputs :
      keyed.last.req[name] = NotADate =>
        /\ DateField(keyed.last.filters, name) = Undefined
        /\ ParamValue(UpstreamParams(keyed.last.filters), DateParam(name)) = Null

\* C35 (amended): a responseDeadlineFrom or responseDeadlineTo that cannot be
\* parsed leaves its field absent from the filters and its parameter absent
\* from the upstream request; a startDate or endDate that cannot be parsed is
\* replaced, as a missing one is, by the day thirty days before the request or
\* by the day of the request, which is sent upstream; the input itself never
\* reaches the filters, the cache key or the upstream request.
C35_UnparsableDateDropped ==
  keyed.made =>
    \A name \in DateInputs :
      keyed.last.req[name] = NotADate =>
        /\ name \in {"responseDeadlineFrom", "responseDeadlineTo"} =>
             /\ DateField(keyed.last.filters, name) = Undefined
             /\ ParamValue(UpstreamParams(keyed.last.filters), DateParam(name)) = Null
        /\ name \in {"startDate", "endDate"} =>
             /\ PaddedSAMDate(DateField(keyed.last.filters, name))
             /\ SAMDateDays(DateField(keyed.last.filters, name)) =
                  keyed.last.day - (IF name = "startDate" THEN 30 ELSE 0)
             /\ ParamValue(UpstreamParams(keyed.last.filters), DateParam(name)) =
                  DateField(keyed.last.filters, name)
        /\ \A i \in 1..Len(UpstreamParams(keyed.last.filters)) :
             UpstreamParams(keyed.last.filters)[i][2] # NotADate
        /\ \A i \in 1..(Len(keyed.last.key) - 2) :
             SubSeq(keyed.last.key, i, i + 2) # NotADate

\* a request with a parsable responseDeadlineFrom and an unparsable
\* responseDeadlineTo: the first is kept, the second dropped
C35_Witness ==
  /\ keyed.made
  /\ keyed.last.req.responseDeadlineTo = NotADate
  /\ keyed.last.req.responseDeadlineFrom = ISODate
  /\ keyed.last.filters.responseDeadline.from = SAMDate
  /\ keyed.last.filters.responseDeadline.to = Undefined

\* C36: whatever is given as limit and offset, the filters built for the
\* request and the parameters sent upstream have limit <= 100 and offset >= 0
\* (a limit or offset that is not a number is not held against the bound).
C36_PaginationBounds ==
  UpstreamCalled =>
    /\ resp.filters.limit # NaN => resp.filters.limit[1] <= 100
    /\ resp.filters.offset # NaN => resp.filters.offset[1] >= 0
    /\ IntegerOf(ParamValue(resp.params, "limit")) <= 100
    /\ IntegerOf(ParamValue(resp.params, "offset")) >= 0

\* the search results cache holds a live page for the filters of the request
\* just answered
WouldHit ==
  \E k \in DOMAIN searchResultsCache :
    /\ k = JSONStringifyFilters(BuildFilters(resp.req, now))
    /\ now - searchResultsCache[k].timestamp < CACHE_DURATION

\* C37: every request answered otherwise than 429, be it a success, a cache
\* hit, a missing-key 400 or a 500, has added one to its client's count (or
\* opened a window with count 1); and a request that finds 100 requests
\* admitted in its window is answered 429, also when the search results cache
\* holds a live page for it.
C37_EveryRequestCounts ==
  (Responded /\ rl.called) =>
    /\ resp.status # 429 =>
         /\ resp.changed.rate
         /\ samRateLimitMap[rl.ip].count = (IF rl.inside THEN rl.before + 1 ELSE 1)
    /\ (rl.inside /\ rl.before >= 100) => resp.status = 429
    /\ resp.status = 429 => rl.inside /\ rl.before >= 100 /\ ~resp.changed.rate

\* the 101st request of a window asked for a page the cache holds live, and
\* was rejected
C37_Witness ==
  /\ Responded /\ resp.status = 429
  /\ Truthy(resp.req.samApiKey)
  /\ WouldHit
  /\ rl.before = 100

\* what the persist middleware writes to localStorage
Persisted == partialize(store)

\* C38: the persisted projection holds no API key and no file body: its
\* llmConfig.apiKey is the empty string, every uploaded file's content is the
\* empty string, it has no samApiKey field, and no chat session in it carries
\* an API key.
C38_NoSecretPersisted ==
  /\ Persisted.llmConfig.apiKey = EmptyString
  /\ \A i \in 1..Len(Persisted.uploadedFiles) :
       Persisted.uploadedFiles[i].content = EmptyString
  /\ "samApiKey" \notin DOMAIN Persisted
  /\ \A i \in 1..Len(Persisted.chatSessions) :
       Persisted.chatSessions[i].llmConfig.apiKey = EmptyString

\* C39: currentSession is null or equal, in id, messages and every other
\* field, to the session of that id in chatSessions.
C39_CurrentSessionInList ==
  store.currentSession # None =>
    \E i \in 1..Len(store.chatSessions) :
      /\ store.chatSessions[i].id = store.currentSession[1].id
      /\ store.chatSessions[i] = store.currentSession[1]

\* the last step settled a call of a server action that was answered not ok
\* or threw
FailedCall ==
  acted.name \in ServerActions /\ acted.phase = "settle" /\ acted.failed

\* C40: when a server call of createWorkingList, updateWorkingList,
\* deleteWorkingList, addItemToWorkingList, updateWorkingListItem,
\* removeItemFromWorkingList or performVectorSearch is answered not ok or
\* throws, the action leaves workingLists, currentWorkingList,
\* workingListItems and vectorSearchResults as they were (as they were when it
\* started, if no other call was fulfilled meanwhile) and its loading flag
\* false; with no call in flight both loading flags are false.
C40_FailedCallLeavesStore ==
  /\ FailedCall =>
       /\ Watched(store) = acted.before
       /\ acted.clean => Watched(store) = acted.atStart
       /\ acted.name = "performVectorSearch" => ~store.isVectorSearching
       /\ acted.name = "createWorkingList" => ~store.isWorkingListLoading
  /\ pending = << >> => ~store.isVectorSearching /\ ~store.isWorkingListLoading

\* a createWorkingList call threw while the store held a list and a current
\* list: both are as before and the flag is down
C40_Witness ==
  /\ FailedCall /\ acted.name = "createWorkingList" /\ acted.thrown
  /\ pending = << >>
  /\ store.workingLists # << >>
  /\ store.currentWorkingList # None
  /\ acted.clean
  /\ ~store.isWorkingListLoading

====
